---- MODULE Spec2Model ----
(***************************************************************************)
(* Model of the thread-safe generic hashmap (src/hashmap.h, second header  *)
(* variant, lines 171-708): HashMap<K, V, F> with its bucket array _table, *)
(* its per-bucket mutex array _mutexes, the collision chains, the nested   *)
(* Iterator, and the constructors / assignment operators / resize.         *)
(*                                                                         *)
(* The arrays made by new [] live in a heap of cells; _table and _mutexes  *)
(* are addresses of cells (0 is nullptr), so that two tables can point to  *)
(* the same array and a pointer can outlive its array.  A chain (a singly  *)
(* linked list of Element) is a sequence of records [key, value]: position *)
(* p of the sequence is the p-th Element reached from the bucket head, and *)
(* position Len+1 stands for nullptr.  Array elements are indexed from 0.  *)
(***************************************************************************)
EXTENDS Integers, Sequences, FiniteSets, TLC

\* ---------------------------------------------------------------- bounds
\* keys are the unsigned integers 0..MaxKey
MaxKey == 2
\* keys used where two tables are driven side by side
MaxPairKey == 1
\* capacities given to HashMap(size) and resize(newSize) are 0..MaxSize
MaxSize == 2
\* number of heap cells for arrays
HeapSize == 5

\* ------------------------------------------------------ program constants
MAX_TABLE_SIZE == 100
hashConst == 17

Keys == 0..MaxKey
PairKeys == 0..MaxPairKey
Values == {"hello", "world"}
Sizes == 0..MaxSize
Maps == {"umap", "umap2"}
Threads == {"t1", "t2"}
Addrs == 1..HeapSize

VARIABLES
    life,      \* life[m]: "none" before construction / after ~HashMap, "live"
    size,      \* size[m]: the field _size
    table,     \* table[m]: the field _table, the address of an array of chains
    mutexes,   \* mutexes[m]: the field _mutexes, the address of an array of
               \* mutex pointers
    heap,      \* heap[a]: the array at address a, or a free cell
    stored,    \* history: stored[m][k] is the value of the last insert(k, .)
               \* on m not followed by a remove(k), or NoValue
    last,      \* the last call made and how it ended
    crashed,   \* TRUE once a call has hit undefined behaviour and died
    iter,      \* the HashMap::Iterator of a walk: _map, _current, _index
    visited,   \* history: the Elements the walk has dereferenced, in order
    thread     \* thread[t]: the call thread t is in, and how far it has got

iterVars == <<iter, visited>>
vars == <<life, size, table, mutexes, heap, stored, last, crashed, iter, visited,
          thread>>

NoValue == "<none>"
NoKey == 0 - 1
NullPtr == 0

\* what() of the std::out_of_range thrown by lookup and remove
KeyNotFound == "HashMap: key doesn't exists"

\* ------------------------------------------------------------ data model
\* struct Element { K key; V value; Element *next; }
Element(k, v) == [key |-> k, value |-> v]

\* A bucket slot: an Element* that is either a proper chain head (wild =
\* FALSE; nullptr is the empty chain) or an indeterminate value that was
\* never written or whose array is gone (wild = TRUE).
Slot(c) == [wild |-> FALSE, chain |-> c]
WildSlot == [wild |-> TRUE, chain |-> <<>>]

\* heap cells: free, an Element *[n], or a std::mutex *[n]
FreeCell == [kind |-> "free", elems |-> <<>>]
TableCell(f) == [kind |-> "table", elems |-> f]
MutexCell(f) == [kind |-> "mutexes", elems |-> f]

\* _table[i] of m: reading through nullptr, through a pointer to a deleted
\* array or past the end of the array gives an indeterminate pointer
slotAt(h, m, i) ==
    IF table[m] /= NullPtr /\ h[table[m]].kind = "table"
       /\ i \in DOMAIN h[table[m]].elems
    THEN h[table[m]].elems[i]
    ELSE WildSlot

\* _mutexes[i] of m: a std::mutex* that points to a mutex that is "unlocked"
\* or "locked", or that is "wild" (the slot was never written, or its array
\* is gone)
mutexAt(h, m, i) ==
    IF mutexes[m] /= NullPtr /\ h[mutexes[m]].kind = "mutexes"
       /\ i \in DOMAIN h[mutexes[m]].elems
    THEN h[mutexes[m]].elems[i]
    ELSE "wild"

\* _table[i] = c, for a chain c
setSlot(h, m, i, c) ==
    IF table[m] /= NullPtr /\ h[table[m]].kind = "table"
       /\ i \in DOMAIN h[table[m]].elems
    THEN [h EXCEPT ![table[m]].elems[i] = Slot(c)]
    ELSE h

\* hashFunctor of the test programs: (key * key + hashConst) % MAX_TABLE_SIZE
hashFunctor(key) == (key * key + hashConst) % MAX_TABLE_SIZE

\* unsigned hash(K key) { return hashFunctor(key) % _size; }   (_size > 0)
hash(m, key) == hashFunctor(key) % size[m]

\* ---------------------------------------------------- chain algorithms
\* while (tmp != nullptr && tmp->key != key) tmp = tmp->next;
\* returns the position of tmp when the loop ends (Len + 1 for nullptr)
RECURSIVE findFrom(_, _, _)
findFrom(chain, key, p) ==
    IF p <= Len(chain) /\ chain[p].key /= key
    THEN findFrom(chain, key, p + 1)
    ELSE p

\* Mutant of scanToTail: the loop tests only tmp->next != nullptr, so tmp
\* always ends at the tail.
scanToTailNoKey(chain, key, p) == Len(chain)

\* while (tmp->next != nullptr && tmp->key != key) tmp = tmp->next;
\* (chain is not empty; tmp starts at the head)
RECURSIVE scanToTail(_, _, _)
scanToTail(chain, key, p) ==
    IF p < Len(chain) /\ chain[p].key /= key
    THEN scanToTail(chain, key, p + 1)
    ELSE p

\* body of exists() under the lock
chainExists(chain, key) == findFrom(chain, key, 1) <= Len(chain)

\* body of lookup() under the lock: the value, or NoValue for the throw
chainLookup(chain, key) ==
    LET p == findFrom(chain, key, 1)
    IN  IF p > Len(chain) THEN NoValue ELSE chain[p].value

\* Mutant of chainInsert: a new Element becomes the head of its chain
\* (next = _table[i]; _table[i] = new Element) instead of the tail's next.
chainInsertAtHead(chain, key, value) ==
    LET p == findFrom(chain, key, 1)
    IN  IF p <= Len(chain)
        THEN [chain EXCEPT ![p].value = value]
        ELSE <<Element(key, value)>> \o chain

\* body of insert() under the lock
chainInsert(chain, key, value) ==
    IF chain = <<>>
    THEN <<Element(key, value)>>
    ELSE LET p == scanToTail(chain, key, 1)
         IN  IF chain[p].key = key
             THEN [chain EXCEPT ![p].value = value]
             ELSE Append(chain, Element(key, value))

\* Mutant of chainRemove: the unlink writes nullptr instead of tmp->next,
\* cutting off the Elements behind the removed one.
chainRemoveDropRest(chain, key) ==
    LET p == findFrom(chain, key, 1)
    IN  IF p > Len(chain)
        THEN [thrown |-> TRUE, chain |-> chain]
        ELSE [thrown |-> FALSE, chain |-> SubSeq(chain, 1, p - 1)]

\* Mutant of chainRemove: the prev == nullptr case is missing, so removing
\* the head leaves the bucket pointing at it.
chainRemoveKeepHead(chain, key) ==
    LET p == findFrom(chain, key, 1)
    IN  IF p > Len(chain)
        THEN [thrown |-> TRUE, chain |-> chain]
        ELSE [thrown |-> FALSE,
              chain |-> IF p = 1 THEN chain
                        ELSE SubSeq(chain, 1, p - 1) \o SubSeq(chain, p + 1, Len(chain))]

\* Mutant of chainRemove: the scan is insert's loop (tmp->next != nullptr),
\* so tmp is never nullptr in a bucket that holds Elements and the Element
\* the scan stops at is unlinked whatever its key.
chainRemoveTailScan(chain, key) ==
    IF chain = <<>>
    THEN [thrown |-> TRUE, chain |-> chain]
    ELSE LET p == scanToTail(chain, key, 1)
         IN  [thrown |-> FALSE,
              chain |-> SubSeq(chain, 1, p - 1) \o SubSeq(chain, p + 1, Len(chain))]

\* body of remove() under the lock: the scan with prev, the throw when tmp
\* is nullptr, else the unlink of tmp (from _table[i] when prev is nullptr,
\* from prev->next otherwise) and its delete
chainRemove(chain, key) ==
    LET p == findFrom(chain, key, 1)
    IN  IF p > Len(chain)
        THEN [thrown |-> TRUE, chain |-> chain]
        ELSE [thrown |-> FALSE,
              chain |-> SubSeq(chain, 1, p - 1) \o SubSeq(chain, p + 1, Len(chain))]

\* ------------------------------------------------------------- mutexes
\* std::lock_guard<std::mutex> lock(*_mutexes[i]);  -- constructor
lockAt(h, m, i) ==
    IF mutexAt(h, m, i) = "unlocked"
    THEN [h EXCEPT ![mutexes[m]].elems[i] = "locked"]
    ELSE h

\* ~lock_guard at the end of the scope, on the return and on the throw path
unlockAt(h, m, i) ==
    IF mutexAt(h, m, i) = "locked"
    THEN [h EXCEPT ![mutexes[m]].elems[i] = "unlocked"]
    ELSE h

\* Locking through a pointer that does not point to a mutex is undefined:
\* the call may die there, or go on as if it had the lock.
lockOutcomes(m, i) ==
    IF mutexAt(heap, m, i) = "unlocked" THEN {"ok"} ELSE {"ok", "crash"}

\* ------------------------------------------------- keyed operations
\* body of lookup() under the lock: the value, or KeyNotFound for the throw
lookupBody(chain, key) ==
    IF chainLookup(chain, key) = NoValue THEN KeyNotFound
    ELSE chainLookup(chain, key)

\* The set of ways exists(key) can end in the current state of m: "true",
\* "false" or "crash".  o is the way the lock ends, sl is _table[hash(key)].
existsResults(m, key) ==
    IF size[m] = 0
    THEN {"crash"}                       \* hashFunctor(key) % 0
    ELSE { IF o = "crash" \/ sl.wild THEN "crash"
           ELSE IF chainExists(sl.chain, key) THEN "true" ELSE "false"
           : o \in lockOutcomes(m, hash(m, key)),
             sl \in {slotAt(heap, m, hash(m, key))} }

\* The set of ways lookup(key) can end: a value, KeyNotFound (the
\* std::out_of_range throw) or "crash".
lookupResults(m, key) ==
    IF size[m] = 0
    THEN {"crash"}
    ELSE { IF o = "crash" \/ sl.wild THEN "crash"
           ELSE lookupBody(sl.chain, key)
           : o \in lockOutcomes(m, hash(m, key)),
             sl \in {slotAt(heap, m, hash(m, key))} }

\* The set of ways insert(key, value) can end: "ok" or "crash".
insertResults(m, key) ==
    IF size[m] = 0
    THEN {"crash"}
    ELSE { IF o = "crash" \/ sl.wild THEN "crash" ELSE "ok"
           : o \in lockOutcomes(m, hash(m, key)),
             sl \in {slotAt(heap, m, hash(m, key))} }

\* The set of ways remove(key) can end: "ok", KeyNotFound or "crash".
removeResults(m, key) ==
    IF size[m] = 0
    THEN {"crash"}
    ELSE { IF o = "crash" \/ sl.wild THEN "crash"
           ELSE IF chainRemove(sl.chain, key).thrown THEN KeyNotFound ELSE "ok"
           : o \in lockOutcomes(m, hash(m, key)),
             sl \in {slotAt(heap, m, hash(m, key))} }

\* the heap after insert(key, value) has run its body on bucket hash(key)
insertBody(h, m, key, value) ==
    LET i == hash(m, key)
    IN  setSlot(h, m, i, chainInsert(slotAt(h, m, i).chain, key, value))

\* the heap after remove(key) has run its body on bucket hash(key)
removeBody(h, m, key) ==
    LET i == hash(m, key)
    IN  setSlot(h, m, i, chainRemove(slotAt(h, m, i).chain, key).chain)

\* Mutant of guardedHeap: a plain lock() with no unlock on the way out.
guardedHeapNoUnlock(h, m, key) ==
    LET i == hash(m, key) IN lockAt(h, m, i)

\* the heap after the lock_guard of a keyed operation on key has locked
\* _mutexes[hash(key)] on entry and released it on the exit path
guardedHeap(h, m, key) ==
    LET i == hash(m, key) IN unlockAt(lockAt(h, m, i), m, i)

Call(op, m, key, val, res) ==
    [op |-> op, map |-> m, key |-> key, val |-> val, res |-> res]

\* A call that dies: nothing of the program state is observed afterwards.
Crash(op, m, key) ==
    /\ crashed' = TRUE
    /\ last' = Call(op, m, key, NoValue, "crash")
    /\ UNCHANGED <<life, size, table, mutexes, heap, stored>>

EmptyStore == [k \in Keys |-> NoValue]

\* bool exists(K key)
Exists(m, key) ==
    /\ life[m] = "live" /\ ~crashed
    /\ \E r \in existsResults(m, key) :
        IF r = "crash" THEN Crash("exists", m, key)
        ELSE /\ heap' = guardedHeap(heap, m, key)
             /\ last' = Call("exists", m, key, NoValue, r)
             /\ UNCHANGED <<life, size, table, mutexes, stored, crashed>>

\* V lookup(K key)
Lookup(m, key) ==
    /\ life[m] = "live" /\ ~crashed
    /\ \E r \in lookupResults(m, key) :
        IF r = "crash" THEN Crash("lookup", m, key)
        ELSE /\ heap' = guardedHeap(heap, m, key)
             /\ last' = Call("lookup", m, key, NoValue, r)
             /\ UNCHANGED <<life, size, table, mutexes, stored, crashed>>

\* void insert(K key, V value)
Insert(m, key, value) ==
    /\ life[m] = "live" /\ ~crashed
    /\ \E r \in insertResults(m, key) :
        IF r = "crash" THEN Crash("insert", m, key)
        ELSE /\ heap' = guardedHeap(insertBody(heap, m, key, value), m, key)
             /\ stored' = [stored EXCEPT ![m][key] = value]
             /\ last' = Call("insert", m, key, value, r)
             /\ UNCHANGED <<life, size, table, mutexes, crashed>>

\* void remove(K key)
Remove(m, key) ==
    /\ life[m] = "live" /\ ~crashed
    /\ \E r \in removeResults(m, key) :
        IF r = "crash" THEN Crash("remove", m, key)
        ELSE /\ heap' = guardedHeap(removeBody(heap, m, key), m, key)
             /\ stored' = IF r = "ok" THEN [stored EXCEPT ![m][key] = NoValue]
                          ELSE stored
             /\ last' = Call("remove", m, key, NoValue, r)
             /\ UNCHANGED <<life, size, table, mutexes, crashed>>

\* ------------------------------------- construction and destruction
freeAddrs(h) == { a \in Addrs : h[a].kind = "free" }

\* operator new[]: the address it returns (the lowest free cell)
newAddr(h) == CHOOSE a \in freeAddrs(h) : \A b \in freeAddrs(h) : a <= b

\* operator delete[]: a no-op on nullptr
deleteArray(h, a) ==
    IF a /= NullPtr /\ h[a].kind /= "free" THEN [h EXCEPT ![a] = FreeCell] ELSE h

\* The fields of a table together with the heap they point into.
Fields(h, n, t, u) == [heap |-> h, size |-> n, table |-> t, mutexes |-> u]

\* void allocateTableAndMutexes(size_t size), starting from heap h: the
\* heap and the three fields afterwards.  Every _mutexes[i] is a new
\* std::mutex and every _table[i] is nullptr.
allocateTableAndMutexes(h, n) ==
    LET t == newAddr(h)
        h1 == [h EXCEPT ![t] = TableCell([i \in 0..(n - 1) |-> Slot(<<>>)])]
        u == newAddr(h1)
        h2 == [h1 EXCEPT ![u] = MutexCell([i \in 0..(n - 1) |-> "unlocked"])]
    IN  Fields(h2, n, t, u)

\* void destroyTableAndMutexes(): the heap and the three fields afterwards.
\* Nothing happens when _table is nullptr; otherwise every chain and the two
\* arrays are deleted, _size is set to 0, and _table and _mutexes are left
\* pointing at the deleted arrays.
destroyTableAndMutexes(h, m) ==
    IF table[m] = NullPtr
    THEN Fields(h, size[m], table[m], mutexes[m])
    ELSE Fields(deleteArray(deleteArray(h, table[m]), mutexes[m]),
                0, table[m], mutexes[m])

\* The ways destroyTableAndMutexes() can end on m: it locks every mutex and
\* walks every chain, which is undefined on a wild mutex or bucket pointer,
\* and it deletes both arrays, which is undefined on an array already deleted.
destroyOutcomes(m) ==
    IF table[m] = NullPtr THEN {"ok"}
    ELSE IF \/ \E i \in 0..(size[m] - 1) :
                  mutexAt(heap, m, i) /= "unlocked" \/ slotAt(heap, m, i).wild
            \/ heap[table[m]].kind /= "table"
            \/ mutexes[m] = NullPtr
            \/ (mutexes[m] /= NullPtr /\ heap[mutexes[m]].kind /= "mutexes")
         THEN {"ok", "crash"}
         ELSE {"ok"}

SetFields(m, f) ==
    /\ heap' = f.heap
    /\ size' = [size EXCEPT ![m] = f.size]
    /\ table' = [table EXCEPT ![m] = f.table]
    /\ mutexes' = [mutexes EXCEPT ![m] = f.mutexes]

\* HashMap() : _size(0), _table(nullptr), _mutexes(nullptr) {}
DefaultConstruct(m) ==
    /\ life[m] = "none" /\ ~crashed
    /\ life' = [life EXCEPT ![m] = "live"]
    /\ SetFields(m, Fields(heap, 0, NullPtr, NullPtr))
    /\ stored' = [stored EXCEPT ![m] = EmptyStore]
    /\ last' = Call("HashMap()", m, NoKey, NoValue, "ok")
    /\ UNCHANGED crashed

\* HashMap(size_t size)
SizedConstruct(m, n) ==
    /\ life[m] = "none" /\ ~crashed
    /\ Cardinality(freeAddrs(heap)) >= 2
    /\ life' = [life EXCEPT ![m] = "live"]
    /\ SetFields(m, allocateTableAndMutexes(heap, n))
    /\ stored' = [stored EXCEPT ![m] = EmptyStore]
    /\ last' = Call("HashMap(size)", m, NoKey, NoValue, "ok")
    /\ UNCHANGED crashed

\* ~HashMap(): destroyTableAndMutexes(), and the object is gone afterwards
Destroy(m) ==
    /\ life[m] = "live" /\ ~crashed
    /\ \E o \in destroyOutcomes(m) :
        IF o = "crash" THEN Crash("~HashMap", m, NoKey)
        ELSE /\ life' = [life EXCEPT ![m] = "none"]
             /\ SetFields(m, Fields(destroyTableAndMutexes(heap, m).heap,
                                    0, NullPtr, NullPtr))
             /\ stored' = [stored EXCEPT ![m] = EmptyStore]
             /\ last' = Call("~HashMap", m, NoKey, NoValue, "ok")
             /\ UNCHANGED crashed

\* ------------------------------------------------------- copy and move
\* insert(tmp->key, tmp->value) into the table under construction, whose
\* bucket array is at address t and whose _size is n
copyInsert(h, t, n, key, value) ==
    LET i == hashFunctor(key) % n
    IN  [h EXCEPT ![t].elems[i] = Slot(chainInsert(@.chain, key, value))]

\* Mutant of copyChain: an if in place of the while, so only the head of
\* each chain of other is inserted.
copyChainHeadOnly(h, t, n, chain, p) ==
    IF p > Len(chain) THEN h
    ELSE copyInsert(h, t, n, chain[p].key, chain[p].value)

\* while (tmp != nullptr) { insert(tmp->key, tmp->value); tmp = tmp->next; }
RECURSIVE copyChain(_, _, _, _, _)
copyChain(h, t, n, chain, p) ==
    IF p > Len(chain)
    THEN h
    ELSE copyChain(copyInsert(h, t, n, chain[p].key, chain[p].value),
                   t, n, chain, p + 1)

\* for (unsigned i = 0; i < other._size; ++i) { lock; copy the chain }
RECURSIVE copyBuckets(_, _, _, _)
copyBuckets(h, t, other, i) ==
    IF i >= size[other]
    THEN h
    ELSE copyBuckets(copyChain(h, t, size[other], slotAt(h, other, i).chain, 1),
                     t, other, i + 1)

\* Mutant of copyOf: the copy takes other's two array pointers instead of
\* allocating arrays of its own and inserting other's Elements.
copyOfShallow(h, other) == Fields(h, size[other], table[other], mutexes[other])

\* The heap and the three fields of the copy of other, starting from heap h:
\* allocateTableAndMutexes(other._size) and then the insert loop.
copyOf(h, other) ==
    LET f == allocateTableAndMutexes(h, size[other])
    IN  [f EXCEPT !.heap = copyBuckets(f.heap, f.table, other, 0)]

\* The ways the insert loop of a copy can end: it locks every mutex of other
\* and walks every chain of other.
copyOutcomes(other) ==
    IF \E i \in 0..(size[other] - 1) :
            mutexAt(heap, other, i) /= "unlocked" \/ slotAt(heap, other, i).wild
    THEN {"ok", "crash"}
    ELSE {"ok"}

\* HashMap(HashMap &other)
CopyConstruct(m, other) ==
    /\ life[m] = "none" /\ life[other] = "live" /\ ~crashed
    /\ Cardinality(freeAddrs(heap)) >= 2
    /\ \E o \in copyOutcomes(other) :
        IF o = "crash" THEN Crash("HashMap(HashMap&)", m, NoKey)
        ELSE /\ life' = [life EXCEPT ![m] = "live"]
             /\ SetFields(m, copyOf(heap, other))
             /\ stored' = [stored EXCEPT ![m] = stored[other]]
             /\ last' = Call("HashMap(HashMap&)", m, NoKey, NoValue, "ok")
             /\ UNCHANGED crashed

\* HashMap& operator=(HashMap &other), this != &other
CopyAssign(m, other) ==
    /\ life[m] = "live" /\ life[other] = "live" /\ m /= other /\ ~crashed
    /\ Cardinality(freeAddrs(destroyTableAndMutexes(heap, m).heap)) >= 2
    /\ \E o \in destroyOutcomes(m) \cup copyOutcomes(other) :
        IF o = "crash" THEN Crash("operator=(HashMap&)", m, NoKey)
        ELSE /\ SetFields(m, copyOf(destroyTableAndMutexes(heap, m).heap, other))
             /\ stored' = [stored EXCEPT ![m] = stored[other]]
             /\ last' = Call("operator=(HashMap&)", m, NoKey, NoValue, "ok")
             /\ UNCHANGED <<life, crashed>>

\* a move that leaves other's two pointers in place and only clears its _size
SetFieldsKeepSource(m, other, h) ==
    /\ heap' = h
    /\ size' = [size EXCEPT ![m] = size[other], ![other] = 0]
    /\ table' = [table EXCEPT ![m] = table[other]]
    /\ mutexes' = [mutexes EXCEPT ![m] = mutexes[other]]

\* this takes other's three fields and other gets nullptr, nullptr, 0
SetFieldsOfBoth(m, other, h) ==
    /\ heap' = h
    /\ size' = [size EXCEPT ![m] = size[other], ![other] = 0]
    /\ table' = [table EXCEPT ![m] = table[other], ![other] = NullPtr]
    /\ mutexes' = [mutexes EXCEPT ![m] = mutexes[other], ![other] = NullPtr]

\* HashMap(HashMap &&other)
MoveConstruct(m, other) ==
    /\ life[m] = "none" /\ life[other] = "live" /\ ~crashed
    /\ life' = [life EXCEPT ![m] = "live"]
    /\ SetFieldsOfBoth(m, other, heap)
    /\ stored' = [stored EXCEPT ![m] = stored[other], ![other] = EmptyStore]
    /\ last' = Call("HashMap(HashMap&&)", m, NoKey, NoValue, "ok")
    /\ UNCHANGED crashed

\* The ways operator=(HashMap &&) can end: the function has no return
\* statement, so control flows off the end of a function that returns
\* HashMap&, which is undefined: the call comes back to its caller or not.
moveAssignOutcomes(m) == destroyOutcomes(m) \cup {"ok", "crash"}

\* HashMap& operator=(HashMap &&other), this != &other
MoveAssign(m, other) ==
    /\ life[m] = "live" /\ life[other] = "live" /\ m /= other /\ ~crashed
    /\ \E o \in moveAssignOutcomes(m) :
        IF o = "crash" THEN Crash("operator=(HashMap&&)", m, NoKey)
        ELSE /\ SetFieldsOfBoth(m, other, destroyTableAndMutexes(heap, m).heap)
             /\ stored' = [stored EXCEPT ![m] = stored[other], ![other] = EmptyStore]
             /\ last' = Call("operator=(HashMap&&)", m, NoKey, NoValue, "ok")
             /\ UNCHANGED <<life, crashed>>

\* HashMap& operator=(HashMap &other) with this == &other: the if is
\* skipped and *this is returned
CopyAssignSelf(m) ==
    /\ life[m] = "live" /\ ~crashed
    /\ last' = Call("operator=(HashMap&) on itself", m, NoKey, NoValue, "ok")
    /\ UNCHANGED <<life, size, table, mutexes, heap, stored, crashed>>

\* HashMap& operator=(HashMap &&other) with this == &other: the if is
\* skipped and control flows off the end of the function without a return
MoveAssignSelf(m) ==
    /\ life[m] = "live" /\ ~crashed
    /\ \E o \in {"ok", "crash"} :
        IF o = "crash" THEN Crash("operator=(HashMap&&) on itself", m, NoKey)
        ELSE /\ last' = Call("operator=(HashMap&&) on itself", m, NoKey, NoValue, "ok")
             /\ UNCHANGED <<life, size, table, mutexes, heap, stored, crashed>>

\* -------------------------------------------------------------- resize
\* lines 642-662: the find-or-append of one old Element into the chain of
\* its new bucket
rehashInsert(chain, key, value) ==
    IF chain = <<>>
    THEN <<Element(key, value)>>
    ELSE LET p == scanToTail(chain, key, 1)
         IN  IF chain[p].key = key
             THEN [chain EXCEPT ![p].value = value]
             ELSE Append(chain, Element(key, value))

\* The inner while loop of resize over the chain of one old bucket, from
\* position p on.  nt is newTable; reading a slot of it that was never written
\* and does not happen to hold nullptr sends the scan through a wild pointer.
RECURSIVE rehashChain(_, _, _, _)
rehashChain(nt, chain, p, newSize) ==
    IF nt.crash \/ p > Len(chain)
    THEN nt
    ELSE LET newIdx == hashFunctor(chain[p].key) % newSize
         IN  IF nt.elems[newIdx].wild
             THEN [nt EXCEPT !.crash = TRUE]
             ELSE rehashChain(
                    [nt EXCEPT !.elems[newIdx] =
                        Slot(rehashInsert(@.chain, chain[p].key, chain[p].value))],
                    chain, p + 1, newSize)

\* The for loop of resize over the old buckets i, i+1, .., _size - 1.
RECURSIVE rehashBuckets(_, _, _, _)
rehashBuckets(nt, m, i, newSize) ==
    IF nt.crash \/ i >= size[m]
    THEN nt
    ELSE rehashBuckets(rehashChain(nt, slotAt(heap, m, i).chain, 1, newSize),
                       m, i + 1, newSize)

\* What new Element *[newSize] can hold: every slot is indeterminate, it may
\* or may not read as nullptr.
freshTables(newSize) == [0..(newSize - 1) -> {Slot(<<>>), WildSlot}]

\* Some old bucket holds Elements: resize then deletes that bucket's mutex
\* while its lock_guard still holds it, and the guard unlocks a deleted mutex.
someChain(m) == \E i \in 0..(size[m] - 1) : slotAt(heap, m, i).chain /= <<>>

\* The ways the loop of resize(newSize) can end, for newTable starting as
\* fresh: the record [crash, elems] of the new table.
resizeResults(m, newSize, fresh) ==
    LET start == [crash |-> FALSE, elems |-> fresh]
        \* hashFunctor(key) % 0, or a wild old bucket
        dies == \/ newSize = 0 /\ someChain(m)
                \/ \E i \in 0..(size[m] - 1) : slotAt(heap, m, i).wild
        ub == \/ someChain(m)
              \/ \E i \in 0..(size[m] - 1) : mutexAt(heap, m, i) /= "unlocked"
        done == IF dies THEN [start EXCEPT !.crash = TRUE]
                ELSE rehashBuckets(start, m, 0, newSize)
    IN  {done} \cup (IF ub THEN {[start EXCEPT !.crash = TRUE]} ELSE {})

\* The heap and the fields when resize returns with new table elems: newTable
\* was allocated first, the old arrays are deleted, and _mutexes is a new
\* std::mutex *[newSize] none of whose slots is ever written.
resizeFields(m, newSize, elems) ==
    LET t == newAddr(heap)
        h1 == [heap EXCEPT ![t] = TableCell(elems)]
        h2 == deleteArray(deleteArray(h1, table[m]), mutexes[m])
        u == newAddr(h2)
        h3 == [h2 EXCEPT ![u] = MutexCell([i \in 0..(newSize - 1) |-> "wild"])]
    IN  Fields(h3, newSize, t, u)

\* void resize(size_t newSize)
Resize(m, newSize) ==
    /\ life[m] = "live" /\ ~crashed
    /\ Cardinality(freeAddrs(heap)) >= 1
    /\ \E fresh \in freshTables(newSize) :
       \E r \in resizeResults(m, newSize, fresh) :
        IF r.crash THEN Crash("resize", m, NoKey)
        ELSE /\ SetFields(m, resizeFields(m, newSize, r.elems))
             /\ last' = Call("resize", m, NoKey, NoValue, "ok")
             /\ UNCHANGED <<life, stored, crashed>>

\* ------------------------------------------------------------ Iterator
\* An Element* of the walk: the Element at position p of the chain of bucket
\* b, or nullptr.
NullElem == [b |-> 0 - 1, p |-> 0]
ElemAt(b, p) == [b |-> b, p |-> p]

\* Iterator() {} and the state of an Iterator nobody has made yet
NoIterator == [made |-> FALSE, map |-> "umap", current |-> NullElem, index |-> 0]

\* Mutant of firstUsed: the test of the loop is inverted, so the scan stops
\* at the first bucket that is empty.
firstUsedInverted(m, i) ==
    IF i < size[m] /\ slotAt(heap, m, i).chain /= <<>> THEN i + 1 ELSE i

\* the loop of begin() and of next(): the first i in i0.._size-1 with
\* _table[i] != nullptr, or _size
RECURSIVE firstUsed(_, _)
firstUsed(m, i) ==
    IF i < size[m] /\ slotAt(heap, m, i).chain = <<>>
    THEN firstUsed(m, i + 1)
    ELSE i

\* Iterator begin(): Iterator(this, first), whose _index keeps its default
\* member initializer 0
begin(m) ==
    LET i == firstUsed(m, 0)
    IN  [made |-> TRUE, map |-> m,
         current |-> IF i < size[m] THEN ElemAt(i, 1) ELSE NullElem,
         index |-> 0]

\* Iterator end()
end(m) == [made |-> TRUE, map |-> m, current |-> NullElem, index |-> 0]

\* bool operator!=(Iterator other)
notEqual(a, b) == a.current /= b.current

\* void Iterator::next()
next(it) ==
    IF it.current = NullElem
    THEN it
    ELSE IF it.current.p = Len(slotAt(heap, it.map, it.current.b).chain)
         THEN \* _current->next == nullptr: do ++_index while (...)
              LET i == firstUsed(it.map, it.index + 1)
              IN  [it EXCEPT !.index = i,
                             !.current = IF i < size[it.map] THEN ElemAt(i, 1)
                                         ELSE NullElem]
         ELSE [it EXCEPT !.current = ElemAt(it.current.b, it.current.p + 1)]

\* Element * operator*()
deref(it) == slotAt(heap, it.map, it.current.b).chain[it.current.p]

\* A walk is under way: an Iterator was made by begin() and is not at end().
Walking == iter.made /\ notEqual(iter, end(iter.map))

\* imIter = imap.begin(); the loop body dereferences it when it is not end()
Begin(m) ==
    /\ life[m] = "live" /\ ~crashed /\ ~Walking
    /\ \A i \in 0..(size[m] - 1) : ~slotAt(heap, m, i).wild
    /\ iter' = begin(m)
    /\ visited' = IF notEqual(begin(m), end(m)) THEN <<deref(begin(m))>> ELSE <<>>
    /\ last' = Call("begin", m, NoKey, NoValue, "ok")
    /\ UNCHANGED <<life, size, table, mutexes, heap, stored, crashed>>

\* ++imIter inside while (imIter != imap.end()), then the dereference of the
\* next round of the loop
Advance ==
    /\ Walking /\ ~crashed
    /\ iter' = next(iter)
    /\ visited' = IF notEqual(next(iter), end(iter.map))
                  THEN Append(visited, deref(next(iter)))
                  ELSE visited
    /\ last' = Call("++", iter.map, NoKey, NoValue, "ok")
    /\ UNCHANGED <<life, size, table, mutexes, heap, stored, crashed>>

\* ++imIter on an Iterator that equals end(): next() returns at once and the
\* loop body is not entered
AdvanceEnd ==
    /\ iter.made /\ ~notEqual(iter, end(iter.map)) /\ ~crashed
    /\ life[iter.map] = "live"
    /\ iter' = next(iter)
    /\ last' = Call("++", iter.map, NoKey, NoValue, "ok")
    /\ UNCHANGED <<life, size, table, mutexes, heap, stored, crashed, visited>>

\* ------------------------------------------------------------- threads
\* A thread of the program (std::thread t1 .. t10 of test2.cpp) makes keyed
\* calls on the global table umap one after the other.  A call goes through
\* three points: it has computed hash(key) and is at the constructor of its
\* lock_guard (pc = "lock"); it owns the mutex and has read the chain of its
\* bucket (pc = "inside"); it has written the chain, left the scope of the
\* lock_guard by return or by throw, and is back in the thread (pc = "idle").
Idle == [pc |-> "idle", op |-> "none", key |-> NoKey, val |-> NoValue, seen |-> <<>>]

KeyedOps == {"exists", "lookup", "insert", "remove"}

\* the bucket index of the call thread t is in
bucketIn(t) == hash("umap", thread[t].key)

\* Mutant of lockIndex: one mutex, _mutexes[0], guards every bucket.
lockIndexShared(t) == 0

\* the index idx of the mutex *_mutexes[idx] that guards the call thread t is in
lockIndex(t) == bucketIn(t)

\* Mutant of canLock: lock() returns at once whoever owns the mutex.
canLockAlways(mu) == TRUE

\* std::mutex::lock() returns only when the calling thread owns the mutex
canLock(mu) == mu = "unlocked"

\* what a call returns or throws, from the chain it read under the lock
outcome(op, chain, key) ==
    IF op = "exists" THEN (IF chainExists(chain, key) THEN "true" ELSE "false")
    ELSE IF op = "lookup" THEN lookupBody(chain, key)
    ELSE IF op = "remove"
         THEN (IF chainRemove(chain, key).thrown THEN KeyNotFound ELSE "ok")
    ELSE "ok"

\* the chain a call leaves in its bucket, from the chain it read
written(op, chain, key, val) ==
    IF op = "insert" THEN chainInsert(chain, key, val)
    ELSE IF op = "remove" THEN chainRemove(chain, key).chain
    ELSE chain

\* Mutant of exitHeap: the mutex is unlocked by hand before the return, so
\* the throw of lookup and remove leaves it locked.
exitHeapNoUnwind(h, m, i, res) ==
    IF res = KeyNotFound THEN h ELSE unlockAt(h, m, i)

\* ~lock_guard when the call leaves its scope with outcome res: it runs on
\* the return and, by stack unwinding, on the throw
exitHeap(h, m, i, res) == unlockAt(h, m, i)

\* thread t calls op(key) or insert(key, val) on umap
ThreadCall(t, op, key, val) ==
    /\ life["umap"] = "live" /\ size["umap"] >= 1 /\ ~crashed
    /\ thread[t].pc = "idle"
    /\ val = NoValue <=> op /= "insert"
    /\ thread' = [thread EXCEPT ![t] =
                    [pc |-> "lock", op |-> op, key |-> key, val |-> val, seen |-> <<>>]]
    /\ UNCHANGED <<life, size, table, mutexes, heap, stored, last, crashed>>

\* std::lock_guard<std::mutex> lock(*_mutexes[idx]) returns to thread t,
\* which reads _table[idx]
ThreadEnter(t) ==
    /\ thread[t].pc = "lock"
    /\ canLock(mutexAt(heap, "umap", lockIndex(t)))
    /\ heap' = lockAt(heap, "umap", lockIndex(t))
    /\ thread' = [thread EXCEPT ![t].pc = "inside",
                                ![t].seen = slotAt(heap, "umap", bucketIn(t)).chain]
    /\ UNCHANGED <<life, size, table, mutexes, stored, crashed>>

\* thread t finishes the body of its call and leaves the scope of the
\* lock_guard
ThreadExit(t) ==
    /\ thread[t].pc = "inside"
    /\ LET c == thread[t]
           res == outcome(c.op, c.seen, c.key)
       IN  /\ heap' = exitHeap(IF c.op \in {"insert", "remove"}
                               THEN setSlot(heap, "umap", bucketIn(t),
                                            written(c.op, c.seen, c.key, c.val))
                               ELSE heap,
                               "umap", lockIndex(t), res)
           /\ stored' = IF c.op = "insert"
                        THEN [stored EXCEPT !["umap"][c.key] = c.val]
                        ELSE IF c.op = "remove" /\ res = "ok"
                             THEN [stored EXCEPT !["umap"][c.key] = NoValue]
                             ELSE stored
    /\ thread' = [thread EXCEPT ![t] = Idle]
    /\ UNCHANGED <<life, size, table, mutexes, crashed>>

\* the thread keeps what its call returned or threw (test2.cpp lines 65-72)
Observed(t) ==
    last' = Call(thread[t].op, "umap", thread[t].key, thread[t].val,
                 outcome(thread[t].op, thread[t].seen, thread[t].key))

\* ----------------------------------------------------- copying threads
\* A thread that runs HashMap(HashMap &other) or operator=(HashMap &other)
\* while other threads run.  Its record holds op = "copy", val = the table
\* being written (this), key = the loop index i over other's buckets, and
\* seen = the Elements of other's bucket i it has inserted so far.  It is at
\* the lock_guard of other's mutex i or at the loop test (pc = "copyLock"),
\* owns that mutex and is at the while test or at the lock_guard inside
\* insert (pc = "copyInsert"), or is inside insert with the mutex of its own
\* bucket as well (pc = "copyInside").
copyDst(t) == thread[t].val
copySrc(t) == IF thread[t].val = "umap" THEN "umap2" ELSE "umap"

\* tmp of the copy loop: the Element after those already inserted
copyTmp(t) == slotAt(heap, copySrc(t), thread[t].key).chain[Len(thread[t].seen) + 1]

\* tmp != nullptr
copyMore(t) == Len(thread[t].seen) < Len(slotAt(heap, copySrc(t), thread[t].key).chain)

\* Mutant of copyLockIndex: the copy locks other's mutex 0 for every bucket.
copyLockIndexFirst(t) == 0

\* the index of the mutex of other that the copy loop holds in round i
copyLockIndex(t) == thread[t].key

CopyThread(i, m) == [pc |-> "copyLock", op |-> "copy", key |-> i, val |-> m, seen |-> <<>>]

\* thread t starts HashMap(HashMap &other) for m: allocateTableAndMutexes.
\* m is not visible to any other thread before the constructor returns.
CopyConstructStart(t, m, other) ==
    /\ thread[t].pc = "idle" /\ ~crashed
    /\ life[m] = "none" /\ life[other] = "live" /\ m /= other
    /\ Cardinality(freeAddrs(heap)) >= 2
    /\ SetFields(m, allocateTableAndMutexes(heap, size[other]))
    /\ stored' = [stored EXCEPT ![m] = EmptyStore]
    /\ thread' = [thread EXCEPT ![t] = CopyThread(0, m)]
    /\ UNCHANGED <<life, crashed>>

\* thread t starts operator=(HashMap &other) on m: destroyTableAndMutexes,
\* which takes and releases m's mutexes one after the other, and
\* allocateTableAndMutexes, here at a moment when no thread owns a mutex of m
CopyAssignStart(t, m, other) ==
    /\ thread[t].pc = "idle" /\ ~crashed
    /\ life[m] = "live" /\ life[other] = "live" /\ m /= other
    /\ destroyOutcomes(m) = {"ok"}
    /\ Cardinality(freeAddrs(destroyTableAndMutexes(heap, m).heap)) >= 2
    /\ SetFields(m, allocateTableAndMutexes(destroyTableAndMutexes(heap, m).heap,
                                            size[other]))
    /\ stored' = [stored EXCEPT ![m] = EmptyStore]
    /\ thread' = [thread EXCEPT ![t] = CopyThread(0, m)]
    /\ UNCHANGED <<life, crashed>>

\* i < other._size and std::lock_guard<std::mutex> lock(*other._mutexes[i])
\* returns
CopyLock(t) ==
    /\ thread[t].pc = "copyLock" /\ ~crashed
    /\ thread[t].key < size[copySrc(t)]
    /\ canLock(mutexAt(heap, copySrc(t), copyLockIndex(t)))
    /\ heap' = lockAt(heap, copySrc(t), copyLockIndex(t))
    /\ thread' = [thread EXCEPT ![t].pc = "copyInsert"]
    /\ UNCHANGED <<life, size, table, mutexes, stored, crashed>>

\* tmp != nullptr: insert(tmp->key, tmp->value) is called and its lock_guard
\* on this->_mutexes[hash(key)] returns, while the lock_guard of the loop is
\* still in scope
CopyInsertEnter(t) ==
    /\ thread[t].pc = "copyInsert" /\ ~crashed
    /\ copyMore(t) /\ size[copyDst(t)] >= 1
    /\ canLock(mutexAt(heap, copyDst(t), hash(copyDst(t), copyTmp(t).key)))
    /\ heap' = lockAt(heap, copyDst(t), hash(copyDst(t), copyTmp(t).key))
    /\ thread' = [thread EXCEPT ![t].pc = "copyInside"]
    /\ UNCHANGED <<life, size, table, mutexes, stored, crashed>>

\* the body of insert and the end of its lock_guard; tmp = tmp->next.  tmp
\* is an Element of other's chain: nothing can have unlinked it while the
\* thread owns the mutex of that bucket.
CopyInsertExit(t) ==
    /\ thread[t].pc = "copyInside" /\ ~crashed
    /\ copyMore(t)
    /\ \E e \in {copyTmp(t)} :
        /\ heap' = unlockAt(insertBody(heap, copyDst(t), e.key, e.value),
                            copyDst(t), hash(copyDst(t), e.key))
        /\ stored' = [stored EXCEPT ![copyDst(t)][e.key] = e.value]
        /\ thread' = [thread EXCEPT ![t].pc = "copyInsert",
                                    ![t].seen = Append(@, e)]
    /\ UNCHANGED <<life, size, table, mutexes, crashed>>

\* tmp == nullptr (or the continue on an empty bucket): the lock_guard of the
\* loop goes out of scope, ++i
CopyNext(t) ==
    /\ thread[t].pc = "copyInsert" /\ ~crashed
    /\ ~copyMore(t)
    /\ heap' = unlockAt(heap, copySrc(t), copyLockIndex(t))
    /\ thread' = [thread EXCEPT ![t] = CopyThread(thread[t].key + 1, copyDst(t))]
    /\ UNCHANGED <<life, size, table, mutexes, stored, crashed>>

\* i == other._size: the constructor or operator= returns
CopyEnd(t) ==
    /\ thread[t].pc = "copyLock" /\ ~crashed
    /\ thread[t].key >= size[copySrc(t)]
    /\ life' = [life EXCEPT ![copyDst(t)] = "live"]
    /\ thread' = [thread EXCEPT ![t] = Idle]
    /\ UNCHANGED <<size, table, mutexes, heap, stored, crashed>>

\* the mutexes thread t owns, as pairs <<table, index>>
locksHeld(t) ==
    (IF thread[t].pc = "inside" THEN {<<"umap", lockIndex(t)>>} ELSE {})
    \cup (IF thread[t].pc \in {"copyInsert", "copyInside"}
          THEN {<<copySrc(t), copyLockIndex(t)>>} ELSE {})
    \cup (IF thread[t].pc = "copyInside"
          THEN {<<copyDst(t), hash(copyDst(t), copyTmp(t).key)>>} ELSE {})
    \cup (IF thread[t].pc = "rsDrain" THEN {<<"umap", thread[t].key>>} ELSE {})
    \cup (IF thread[t].pc = "prInside" THEN {<<"umap", thread[t].key>>} ELSE {})

\* thread t is at a lock_guard whose mutex another thread owns
Blocked(t) ==
    \/ /\ thread[t].pc = "lock"
       /\ mutexAt(heap, "umap", lockIndex(t)) = "locked"
    \/ /\ thread[t].pc = "copyLock" /\ thread[t].key < size[copySrc(t)]
       /\ mutexAt(heap, copySrc(t), copyLockIndex(t)) = "locked"
    \/ /\ thread[t].pc = "rsLock" /\ thread[t].key < size["umap"]
       /\ mutexAt(heap, "umap", thread[t].key) = "locked"
    \/ /\ thread[t].pc = "copyInsert" /\ copyMore(t) /\ size[copyDst(t)] >= 1
       /\ mutexAt(heap, copyDst(t), hash(copyDst(t), copyTmp(t).key)) = "locked"

\* ------------------------------------------------------ resizing thread
\* A thread that runs resize(newSize) on umap while other threads run.  Its
\* record holds op = "resize", key = the loop index i over the old buckets
\* and seen = newTable as built so far (newTable is a local of resize: it
\* takes its place in the heap when resize installs it).  The thread is at
\* the loop test or at the lock_guard of old mutex i (pc = "rsLock"), or owns
\* that mutex and is about to drain old bucket i (pc = "rsDrain").
ResizeThread(i, nt) == [pc |-> "rsLock", op |-> "resize", key |-> i, val |-> NoValue,
                        seen |-> nt]

\* Element **newTable = new Element *[newSize];
ResizeStart(t, newSize) ==
    /\ thread[t].pc = "idle" /\ ~crashed
    /\ life["umap"] = "live" /\ size["umap"] >= 1 /\ newSize >= 1
    /\ Cardinality(freeAddrs(heap)) >= 1
    /\ \E fresh \in freshTables(newSize) :
        thread' = [thread EXCEPT ![t] = ResizeThread(0, fresh)]
    /\ UNCHANGED <<life, size, table, mutexes, heap, stored, crashed>>

\* i < _size and std::lock_guard<std::mutex> lock(*_mutexes[i]) returns
ResizeLock(t) ==
    /\ thread[t].pc = "rsLock" /\ ~crashed
    /\ thread[t].key < size["umap"]
    /\ canLock(mutexAt(heap, "umap", thread[t].key))
    /\ heap' = lockAt(heap, "umap", thread[t].key)
    /\ thread' = [thread EXCEPT ![t].pc = "rsDrain"]
    /\ UNCHANGED <<life, size, table, mutexes, stored, crashed>>

\* The heap when resize has drained old bucket i: every Element of the chain
\* is deleted, so _table[i] is left dangling, and delete _mutexes[i] runs
\* while the lock_guard still owns the mutex, so _mutexes[i] is left dangling
\* too and the guard then unlocks a deleted mutex.
drained(h, m, i) ==
    [h EXCEPT ![table[m]].elems[i] = WildSlot, ![mutexes[m]].elems[i] = "wild"]

\* the body of the for loop of resize on old bucket i, to the end of the
\* scope of its lock_guard; ++i
ResizeDrain(t) ==
    /\ thread[t].pc = "rsDrain" /\ ~crashed
    /\ \E sl \in {slotAt(heap, "umap", thread[t].key)} :
       \E nt \in {rehashChain([crash |-> FALSE, elems |-> thread[t].seen],
                              sl.chain, 1, Cardinality(DOMAIN thread[t].seen))} :
        IF sl.wild \/ nt.crash
        THEN /\ crashed' = TRUE
             /\ UNCHANGED <<heap, thread>>
        ELSE /\ heap' = IF sl.chain = <<>>
                        THEN unlockAt(heap, "umap", thread[t].key)
                        ELSE drained(heap, "umap", thread[t].key)
             /\ thread' = [thread EXCEPT ![t] = ResizeThread(thread[t].key + 1, nt.elems)]
             /\ UNCHANGED crashed
    /\ UNCHANGED <<life, size, table, mutexes, stored>>

\* i == _size: delete [] _table; delete [] _mutexes; the three assignments
ResizeFinish(t) ==
    /\ thread[t].pc = "rsLock" /\ ~crashed
    /\ thread[t].key >= size["umap"]
    /\ SetFields("umap", resizeFields("umap", Cardinality(DOMAIN thread[t].seen),
                                      thread[t].seen))
    /\ thread' = [thread EXCEPT ![t] = Idle]
    /\ UNCHANGED <<life, stored, crashed>>

\* Thread t is at a lock_guard whose pointer does not point to a mutex (the
\* mutex was deleted, or the slot was never written): locking through it is
\* undefined.  The thread waits for ever, or the program dies, or the call
\* goes on as if it owned the mutex.
ThreadEnterFreed(t) ==
    /\ thread[t].pc = "lock" /\ ~crashed
    /\ mutexAt(heap, "umap", lockIndex(t)) = "wild"
    /\ \E o \in {"ok", "crash"} :
        IF o = "crash"
        THEN crashed' = TRUE /\ UNCHANGED thread
        ELSE /\ thread' = [thread EXCEPT ![t].pc = "inside",
                                         ![t].seen = slotAt(heap, "umap", bucketIn(t)).chain]
             /\ UNCHANGED crashed
    /\ UNCHANGED <<life, size, table, mutexes, heap, stored>>

\* ------------------------------------------------------ printing thread
\* void print() run by thread t on umap: for every bucket i in ascending
\* order a lock_guard on *_mutexes[i], then the chain of the bucket written
\* to std::cout, then the end of the scope.  thread[t].key is i and
\* thread[t].seen is what was written so far.
PrintThread(i, out) == [pc |-> "prLock", op |-> "print", key |-> i, val |-> NoValue,
                        seen |-> out]

\* Mutant of printLock: print walks the buckets without a lock_guard.
printLockNone(h, i) == h

\* std::lock_guard<std::mutex> lock(*_mutexes[i]) of print
printLock(h, i) == lockAt(h, "umap", i)

\* thread t calls umap.print()
PrintStart(t) ==
    /\ life["umap"] = "live" /\ ~crashed
    /\ thread[t].pc = "idle"
    /\ thread' = [thread EXCEPT ![t] = PrintThread(0, <<>>)]
    /\ UNCHANGED <<life, size, table, mutexes, heap, stored, last, crashed>>

\* i < _size and the lock_guard of bucket i returns to thread t; a pointer
\* that does not point to a mutex ends the program or is taken as locked
PrintLock(t) ==
    /\ thread[t].pc = "prLock" /\ thread[t].key < size["umap"] /\ ~crashed
    /\ \E mu \in {mutexAt(heap, "umap", thread[t].key)} :
          IF mu = "wild"
          THEN /\ crashed' \in {TRUE, FALSE}
               /\ heap' = heap
               /\ thread' = [thread EXCEPT ![t].pc = "prInside"]
          ELSE /\ canLock(mu)
               /\ heap' = printLock(heap, thread[t].key)
               /\ thread' = [thread EXCEPT ![t].pc = "prInside"]
               /\ UNCHANGED crashed
    /\ UNCHANGED <<life, size, table, mutexes, stored, last>>

\* the body of the for loop: continue on an empty bucket, else every Element
\* of the chain is written; then ~lock_guard and ++i
PrintBucket(t) ==
    /\ thread[t].pc = "prInside" /\ ~crashed
    /\ \E sl \in {slotAt(heap, "umap", thread[t].key)} :
          IF sl.wild
          THEN /\ crashed' = TRUE
               /\ UNCHANGED <<heap, thread>>
          ELSE /\ heap' = unlockAt(heap, "umap", thread[t].key)
               /\ thread' = [thread EXCEPT ![t] =
                                PrintThread(thread[t].key + 1, thread[t].seen \o sl.chain)]
               /\ UNCHANGED crashed
    /\ UNCHANGED <<life, size, table, mutexes, stored, last>>

\* i == _size: print returns
PrintEnd(t) ==
    /\ thread[t].pc = "prLock" /\ thread[t].key >= size["umap"] /\ ~crashed
    /\ thread' = [thread EXCEPT ![t] = Idle]
    /\ last' = Call("print", "umap", NoKey, NoValue, "ok")
    /\ UNCHANGED <<life, size, table, mutexes, heap, stored, crashed>>

\* ------------------------------------------------------- specifications
Init ==
    /\ life = [m \in Maps |-> "none"]
    /\ size = [m \in Maps |-> 0]
    /\ table = [m \in Maps |-> NullPtr]
    /\ mutexes = [m \in Maps |-> NullPtr]
    /\ heap = [a \in Addrs |-> FreeCell]
    /\ stored = [m \in Maps |-> EmptyStore]
    /\ last = Call("start", "umap", NoKey, NoValue, "ok")
    /\ crashed = FALSE
    /\ iter = NoIterator
    /\ visited = <<>>
    /\ thread = [t \in Threads |-> Idle]

\* One table, umap, driven by construction, the four keyed operations and
\* destruction (test1.cpp lines 18-76).
Next ==
    \/ \E n \in Sizes : SizedConstruct("umap", n) /\ UNCHANGED <<iterVars, thread>>
    \/ \E k \in Keys, v \in Values : Insert("umap", k, v) /\ UNCHANGED <<iterVars, thread>>
    \/ \E k \in Keys : Remove("umap", k) /\ UNCHANGED <<iterVars, thread>>
    \/ \E k \in Keys : Lookup("umap", k) /\ UNCHANGED <<iterVars, thread>>
    \/ \E k \in Keys : Exists("umap", k) /\ UNCHANGED <<iterVars, thread>>
    \/ Destroy("umap") /\ UNCHANGED <<iterVars, thread>>

Spec == Init /\ [][Next]_vars

\* The same table with resize among its operations (test2.cpp lines 216, 225).
NextResize ==
    \/ \E n \in Sizes : SizedConstruct("umap", n) /\ UNCHANGED <<iterVars, thread>>
    \/ \E k \in Keys, v \in Values : Insert("umap", k, v) /\ UNCHANGED <<iterVars, thread>>
    \/ \E k \in Keys : Remove("umap", k) /\ UNCHANGED <<iterVars, thread>>
    \/ \E k \in Keys : Lookup("umap", k) /\ UNCHANGED <<iterVars, thread>>
    \/ \E k \in Keys : Exists("umap", k) /\ UNCHANGED <<iterVars, thread>>
    \/ \E n \in Sizes : Resize("umap", n) /\ UNCHANGED <<iterVars, thread>>
    \/ Destroy("umap") /\ UNCHANGED <<iterVars, thread>>

SpecResize == Init /\ [][NextResize]_vars

\* The table filled by inserts and removes, then walked with begin() and ++
\* (test1.cpp lines 166-196).  Nothing changes the table during a walk; a
\* call that changes it afterwards drops the Iterator.
DropIterator == iter' = NoIterator /\ visited' = <<>> /\ UNCHANGED thread

NextIter ==
    \/ \E n \in Sizes : ~Walking /\ SizedConstruct("umap", n) /\ DropIterator
    \/ \E k \in Keys, v \in Values :
            ~Walking /\ Insert("umap", k, v) /\ DropIterator
    \/ \E k \in Keys : ~Walking /\ Remove("umap", k) /\ DropIterator
    \/ ~Walking /\ Destroy("umap") /\ DropIterator
    \/ Begin("umap") /\ UNCHANGED thread
    \/ Advance /\ UNCHANGED thread

SpecIter == Init /\ [][NextIter]_vars

\* Two tables, umap and umap2, each constructed and filled on its own, and
\* moved into one another (test1.cpp lines 78-93).
NextMove ==
    \/ \E m \in Maps : DefaultConstruct(m) /\ UNCHANGED <<iterVars, thread>>
    \/ \E m \in Maps, n \in Sizes : SizedConstruct(m, n) /\ UNCHANGED <<iterVars, thread>>
    \/ \E m \in Maps, k \in PairKeys, v \in Values :
            Insert(m, k, v) /\ UNCHANGED <<iterVars, thread>>
    \/ \E m \in Maps, k \in PairKeys : Remove(m, k) /\ UNCHANGED <<iterVars, thread>>
    \/ \E m \in Maps, o \in Maps : MoveConstruct(m, o) /\ UNCHANGED <<iterVars, thread>>
    \/ \E m \in Maps, o \in Maps : MoveAssign(m, o) /\ UNCHANGED <<iterVars, thread>>
    \/ \E m \in Maps : Destroy(m) /\ UNCHANGED <<iterVars, thread>>

SpecMove == Init /\ [][NextMove]_vars

\* umap constructed and filled, umap2 made as a copy of it by the copy
\* constructor or, once it exists, by copy assignment, and both changed by
\* inserts and removes afterwards (test1.cpp lines 95-112).  umap outlives
\* its copy.
NextCopy ==
    \/ \E n \in Sizes : SizedConstruct("umap", n) /\ UNCHANGED <<iterVars, thread>>
    \/ DefaultConstruct("umap") /\ UNCHANGED <<iterVars, thread>>
    \/ \E m \in Maps, k \in PairKeys, v \in Values :
            Insert(m, k, v) /\ UNCHANGED <<iterVars, thread>>
    \/ \E m \in Maps, k \in PairKeys : Remove(m, k) /\ UNCHANGED <<iterVars, thread>>
    \/ CopyConstruct("umap2", "umap") /\ UNCHANGED <<iterVars, thread>>
    \/ CopyAssign("umap2", "umap") /\ UNCHANGED <<iterVars, thread>>
    \/ Destroy("umap2") /\ UNCHANGED <<iterVars, thread>>
    \/ life["umap2"] = "none" /\ Destroy("umap") /\ UNCHANGED <<iterVars, thread>>

SpecCopy == Init /\ [][NextCopy]_vars

\* The global table of a capacity >= 1 and the threads that make keyed calls
\* on it, on any keys (test2.cpp lines 40, 43-121, 210-246).
NextThreads ==
    \/ \E n \in Sizes : n >= 1 /\ SizedConstruct("umap", n)
                        /\ UNCHANGED <<iterVars, thread>>
    \/ \E t \in Threads, op \in KeyedOps, k \in PairKeys, v \in Values \cup {NoValue} :
            ThreadCall(t, op, k, v) /\ UNCHANGED iterVars
    \/ \E t \in Threads : ThreadEnter(t) /\ UNCHANGED <<iterVars, last>>
    \/ \E t \in Threads : ThreadExit(t) /\ UNCHANGED <<iterVars, last>>

SpecThreads == Init /\ [][NextThreads]_vars

\* The same threads on keys that hash to different buckets: t1 calls on the
\* keys of the buckets of even index, t2 on those of odd index.
bucketOwner(i) == IF i % 2 = 0 THEN "t1" ELSE "t2"

NextDisjoint ==
    \/ \E n \in Sizes : n >= 1 /\ SizedConstruct("umap", n)
                        /\ UNCHANGED <<iterVars, thread>>
    \/ \E t \in Threads, op \in KeyedOps, k \in PairKeys, v \in Values \cup {NoValue} :
            /\ size["umap"] >= 1 /\ bucketOwner(hash("umap", k)) = t
            /\ ThreadCall(t, op, k, v) /\ UNCHANGED iterVars
    \/ \E t \in Threads : ThreadEnter(t) /\ UNCHANGED <<iterVars, last>>
    \/ \E t \in Threads : ThreadExit(t) /\ UNCHANGED <<iterVars, last>>

SpecDisjoint == Init /\ [][NextDisjoint]_vars

\* The threads of SpecThreads under a scheduler that lets every thread that
\* can leave its call do so, and a mutex that does not pass over a waiting
\* thread for ever.
Fairness ==
    \A t \in Threads :
        /\ SF_vars(ThreadEnter(t) /\ UNCHANGED <<iterVars, last>>)
        /\ WF_vars(ThreadExit(t) /\ UNCHANGED <<iterVars, last>>)

SpecLive == Init /\ [][NextThreads]_vars /\ Fairness

\* The same threads, each keeping the outcome of its last call, with one
\* value for all inserts.
NextUnwind ==
    \/ \E n \in Sizes : n >= 1 /\ SizedConstruct("umap", n)
                        /\ UNCHANGED <<iterVars, thread>>
    \/ \E t \in Threads, op \in KeyedOps, k \in PairKeys, v \in {"hello", NoValue} :
            ThreadCall(t, op, k, v) /\ UNCHANGED iterVars
    \/ \E t \in Threads : ThreadEnter(t) /\ UNCHANGED <<iterVars, last>>
    \/ \E t \in Threads : ThreadExit(t) /\ Observed(t) /\ UNCHANGED iterVars

SpecUnwind == Init /\ [][NextUnwind]_vars

\* One table that is filled and assigned to itself (umap = umap;
\* umap = std::move(umap)).
NextSelf ==
    \/ DefaultConstruct("umap") /\ UNCHANGED <<iterVars, thread>>
    \/ \E n \in Sizes : SizedConstruct("umap", n) /\ UNCHANGED <<iterVars, thread>>
    \/ \E k \in PairKeys, v \in Values :
            Insert("umap", k, v) /\ UNCHANGED <<iterVars, thread>>
    \/ \E k \in PairKeys : Remove("umap", k) /\ UNCHANGED <<iterVars, thread>>
    \/ CopyAssignSelf("umap") /\ UNCHANGED <<iterVars, thread>>
    \/ MoveAssignSelf("umap") /\ UNCHANGED <<iterVars, thread>>
    \/ Destroy("umap") /\ UNCHANGED <<iterVars, thread>>

SpecSelf == Init /\ [][NextSelf]_vars

\* umap default-constructed, or constructed with a capacity >= 1 and filled;
\* umap2 made from it by the move constructor, and the tables destroyed in
\* any order (test1.cpp lines 81, 115).  umap is not constructed again while
\* umap2 lives, so a table of capacity 0 is default-constructed or moved-from.
NextMovedFrom ==
    \/ life["umap2"] = "none" /\ DefaultConstruct("umap")
                              /\ UNCHANGED <<iterVars, thread>>
    \/ \E n \in Sizes : /\ n >= 1 /\ life["umap2"] = "none"
                        /\ SizedConstruct("umap", n)
                        /\ UNCHANGED <<iterVars, thread>>
    \/ \E m \in Maps, k \in PairKeys, v \in Values :
            Insert(m, k, v) /\ UNCHANGED <<iterVars, thread>>
    \/ \E m \in Maps, k \in PairKeys : Remove(m, k) /\ UNCHANGED <<iterVars, thread>>
    \/ MoveConstruct("umap2", "umap") /\ UNCHANGED <<iterVars, thread>>
    \/ \E m \in Maps : Destroy(m) /\ UNCHANGED <<iterVars, thread>>

SpecMovedFrom == Init /\ [][NextMovedFrom]_vars

\* The global table umap with a thread that makes keyed calls on it while
\* another thread copy-constructs umap2 from it; umap2 is destroyed between
\* two copies.
NextCopyWriters ==
    \/ \E n \in Sizes : n >= 1 /\ SizedConstruct("umap", n)
                        /\ UNCHANGED <<iterVars, thread>>
    \/ \E op \in {"insert", "remove"}, k \in PairKeys, v \in {"hello", NoValue} :
            ThreadCall("t2", op, k, v) /\ UNCHANGED iterVars
    \/ ThreadEnter("t2") /\ UNCHANGED <<iterVars, last>>
    \/ ThreadExit("t2") /\ UNCHANGED <<iterVars, last>>
    \/ CopyConstructStart("t1", "umap2", "umap") /\ UNCHANGED <<iterVars, last>>
    \/ CopyLock("t1") /\ UNCHANGED <<iterVars, last>>
    \/ CopyInsertEnter("t1") /\ UNCHANGED <<iterVars, last>>
    \/ CopyInsertExit("t1") /\ UNCHANGED <<iterVars, last>>
    \/ CopyNext("t1") /\ UNCHANGED <<iterVars, last>>
    \/ CopyEnd("t1") /\ UNCHANGED <<iterVars, last>>
    \/ thread["t1"].pc = "idle" /\ Destroy("umap2") /\ UNCHANGED <<iterVars, thread>>

SpecCopyWriters == Init /\ [][NextCopyWriters]_vars

\* Two tables of capacity >= 1, a thread that runs umap2 = umap, a thread
\* that runs umap = umap2, and the inserts of the rest of the program, each
\* made while no thread owns the mutex of its bucket.
NextCopyBoth ==
    \/ \E m \in Maps, n \in Sizes :
            /\ n >= 1 /\ \A t \in Threads : thread[t].pc = "idle"
            /\ SizedConstruct(m, n) /\ UNCHANGED <<iterVars, thread>>
    \/ \E m \in Maps, k \in PairKeys :
            /\ life[m] = "live" /\ size[m] >= 1
            /\ mutexAt(heap, m, hash(m, k)) = "unlocked"
            /\ Insert(m, k, "hello") /\ UNCHANGED <<iterVars, thread>>
    \/ CopyAssignStart("t1", "umap2", "umap") /\ UNCHANGED <<iterVars, last>>
    \/ CopyAssignStart("t2", "umap", "umap2") /\ UNCHANGED <<iterVars, last>>
    \/ \E t \in Threads : CopyLock(t) /\ UNCHANGED <<iterVars, last>>
    \/ \E t \in Threads : CopyInsertEnter(t) /\ UNCHANGED <<iterVars, last>>
    \/ \E t \in Threads : CopyInsertExit(t) /\ UNCHANGED <<iterVars, last>>
    \/ \E t \in Threads : CopyNext(t) /\ UNCHANGED <<iterVars, last>>
    \/ \E t \in Threads : CopyEnd(t) /\ UNCHANGED <<iterVars, last>>

SpecCopyBoth == Init /\ [][NextCopyBoth]_vars

\* The global table umap of a capacity >= 1, filled before the threads
\* start; thread t1 runs resize to the capacity the table has (so that the
\* bucket index a waiting call has computed stays the index of its key) while
\* thread t2 makes lookup calls.
NextResizeThreads ==
    \/ \E n \in Sizes : n >= 1 /\ SizedConstruct("umap", n)
                        /\ UNCHANGED <<iterVars, thread>>
    \/ \E k \in PairKeys, v \in Values :
            /\ \A t \in Threads : thread[t].pc = "idle"
            /\ Insert("umap", k, v) /\ UNCHANGED <<iterVars, thread>>
    \/ \E k \in PairKeys : ThreadCall("t2", "lookup", k, NoValue) /\ UNCHANGED iterVars
    \/ ThreadEnter("t2") /\ UNCHANGED <<iterVars, last>>
    \/ ThreadEnterFreed("t2") /\ UNCHANGED <<iterVars, last>>
    \/ ThreadExit("t2") /\ UNCHANGED <<iterVars, last>>
    \/ ResizeStart("t1", size["umap"]) /\ UNCHANGED <<iterVars, last>>
    \/ ResizeLock("t1") /\ UNCHANGED <<iterVars, last>>
    \/ ResizeDrain("t1") /\ UNCHANGED <<iterVars, last>>
    \/ ResizeFinish("t1") /\ UNCHANGED <<iterVars, last>>

SpecResizeThreads == Init /\ [][NextResizeThreads]_vars

\* The global table, a thread that inserts into it and removes from it, a
\* thread that prints it (test2.cpp lines 242-245) and a walk with begin() and ++
\* (test1.cpp lines 166-196) while the other threads are in their calls.  A
\* call that changes the table drops the Iterator.
NextPrint ==
    \/ \E n \in Sizes : /\ n >= 1 /\ \A t \in Threads : thread[t].pc = "idle"
                        /\ SizedConstruct("umap", n) /\ DropIterator
    \/ \E k \in PairKeys :
            /\ \/ ThreadCall("t2", "insert", k, "hello")
               \/ ThreadCall("t2", "remove", k, NoValue)
            /\ UNCHANGED iterVars
    \/ ThreadEnter("t2") /\ UNCHANGED <<iterVars, last>>
    \/ /\ ThreadExit("t2") /\ UNCHANGED last
       /\ IF thread["t2"].op \in {"insert", "remove"}
          THEN iter' = NoIterator /\ visited' = <<>>
          ELSE UNCHANGED iterVars
    \/ PrintStart("t1") /\ UNCHANGED iterVars
    \/ PrintLock("t1") /\ UNCHANGED iterVars
    \/ PrintBucket("t1") /\ UNCHANGED iterVars
    \/ PrintEnd("t1") /\ UNCHANGED iterVars
    \/ Begin("umap") /\ UNCHANGED thread
    \/ Advance /\ UNCHANGED thread

SpecPrint == Init /\ [][NextPrint]_vars

\* The table default constructed or constructed with a capacity, filled and
\* emptied by inserts and removes, and walked with begin() and ++, also on
\* an Iterator that has reached end().
NextIterEmpty ==
    \/ ~Walking /\ DefaultConstruct("umap") /\ DropIterator
    \/ \E n \in Sizes : ~Walking /\ SizedConstruct("umap", n) /\ DropIterator
    \/ \E k \in Keys, v \in Values :
            ~Walking /\ Insert("umap", k, v) /\ DropIterator
    \/ \E k \in Keys : ~Walking /\ Remove("umap", k) /\ DropIterator
    \/ ~Walking /\ Destroy("umap") /\ DropIterator
    \/ Begin("umap") /\ UNCHANGED thread
    \/ Advance /\ UNCHANGED thread
    \/ AdvanceEnd /\ UNCHANGED thread

SpecIterEmpty == Init /\ [][NextIterEmpty]_vars

\* ------------------------------------------------------------ the claims
\* the chain of the bucket that key hashes to in m (m has capacity >= 1)
bucketOf(m, key) == slotAt(heap, m, hash(m, key)).chain

Usable(m) == life[m] = "live" /\ size[m] >= 1

\* the Elements stored in m, over all its buckets
entries(m) ==
    UNION { { slotAt(heap, m, i).chain[p] : p \in 1..Len(slotAt(heap, m, i).chain) }
            : i \in 0..(size[m] - 1) }

\* C1: on a table of capacity >= 1, after any sequence of insert and remove
\* calls, every key whose last insert stored v and that was not removed
\* since has lookup(k) = v and exists(k) = true.
C1_StoredKeysFound ==
    \A m \in Maps, k \in Keys :
        (Usable(m) /\ stored[m][k] /= NoValue)
            => /\ lookupResults(m, k) = {stored[m][k]}
               /\ existsResults(m, k) = {"true"}

\* a lookup has just returned the stored value of a key that sits behind
\* another key of its bucket, in a table that holds at least two keys
C1_Witness ==
    /\ last.op = "lookup" /\ Usable(last.map)
    /\ last.res = stored[last.map][last.key] /\ last.res /= NoValue
    /\ Len(bucketOf(last.map, last.key)) >= 2
    /\ bucketOf(last.map, last.key)[1].key /= last.key

\* C2: insert(k, v2) on a key that an earlier insert stored makes lookup(k)
\* return v2 and leaves the length of k's chain as it was, wherever k sits.
C2_UpsertNoDuplicate ==
    [][\A m \in Maps, k \in Keys :
        (/\ last'.op = "insert" /\ last'.map = m /\ last'.key = k
         /\ last'.res = "ok"
         /\ Usable(m) /\ stored[m][k] /= NoValue)
            => /\ lookupResults(m, k)' = {last'.val}
               /\ Len(bucketOf(m, k))' = Len(bucketOf(m, k))]_vars

\* an insert has just overwritten the value of the middle Element of a
\* chain of three
C2_Witness ==
    /\ last.op = "insert" /\ last.res = "ok" /\ Usable(last.map)
    /\ Len(bucketOf(last.map, last.key)) = 3
    /\ bucketOf(last.map, last.key)[2] = Element(last.key, last.val)

\* C3: a key that was removed (or never inserted) and not inserted since
\* has exists(k) = false and lookup(k) failing with KeyNotFound; an insert of
\* (k, v) makes lookup(k) return v.
C3_RemovedKeyAbsent ==
    /\ \A m \in Maps, k \in Keys :
        (Usable(m) /\ stored[m][k] = NoValue)
            => /\ existsResults(m, k) = {"false"}
               /\ lookupResults(m, k) = {KeyNotFound}
    /\ (last.op = "insert" /\ last.res = "ok")
            => lookupResults(last.map, last.key) = {last.val}

\* a remove has just succeeded on a key whose bucket still holds other keys
C3_Witness ==
    /\ last.op = "remove" /\ last.res = "ok" /\ Usable(last.map)
    /\ Len(bucketOf(last.map, last.key)) >= 1
    /\ stored[last.map][last.key] = NoValue

\* C4: lookup(k) on a key that is not in the table (capacity >= 1) fails
\* with KeyNotFound and leaves every chain, the capacity and every lock as
\* they were.
C4_LookupAbsentNoChange ==
    [][\A m \in Maps, k \in Keys :
        (/\ last'.op = "lookup" /\ last'.map = m /\ last'.key = k
         /\ Usable(m) /\ stored[m][k] = NoValue)
            => /\ last'.res = KeyNotFound
               /\ heap' = heap /\ table' = table /\ mutexes' = mutexes
               /\ size' = size]_vars

\* a lookup has just failed on an absent key whose bucket holds other keys
C4_Witness ==
    /\ last.op = "lookup" /\ last.res = KeyNotFound /\ Usable(last.map)
    /\ Len(bucketOf(last.map, last.key)) >= 1

\* C5: remove(k) on a key that is not in the table (capacity >= 1) fails
\* with KeyNotFound and every chain is the same sequence of (key, value)
\* pairs as before.
C5_RemoveAbsentNoChange ==
    [][\A m \in Maps, k \in Keys :
        (/\ last'.op = "remove" /\ last'.map = m /\ last'.key = k
         /\ Usable(m) /\ stored[m][k] = NoValue)
            => /\ last'.res = KeyNotFound
               /\ heap' = heap /\ table' = table /\ stored' = stored]_vars

\* a remove has just failed on an absent key whose bucket holds two or more
\* colliding keys
C5_Witness ==
    /\ last.op = "remove" /\ last.res = KeyNotFound /\ Usable(last.map)
    /\ Len(bucketOf(last.map, last.key)) >= 2

\* C6: resize round trip.  After resize(newCapacity) with newCapacity larger
\* than the current capacity has returned on a table that holds keys, lookup
\* of every stored key returns the value it had before the resize, and
\* exists() of a key never inserted returns false.
C6_ResizeRoundTrip ==
    [][\A k \in Keys :
        (/\ last'.op = "resize" /\ last'.res = "ok"
         /\ size'["umap"] > size["umap"] /\ size["umap"] >= 1
         /\ \E k2 \in Keys : stored["umap"][k2] /= NoValue)
            => /\ stored["umap"][k] /= NoValue
                    => lookupResults("umap", k)' = {stored["umap"][k]}
               /\ stored["umap"][k] = NoValue
                    => existsResults("umap", k)' = {"false"}]_vars

\* how often the walk has dereferenced Element e
timesVisited(e) == Cardinality({ j \in 1..Len(visited) : visited[j] = e })

\* C7: iteration completeness.  When a walk from begin() with ++ has reached
\* end(), it has yielded every (key, value) pair of the table exactly once and
\* nothing else, whichever bucket is the first non-empty one.
C7_IterationComplete ==
    (iter.made /\ ~Walking /\ last.op \in {"begin", "++"})
        => /\ \A e \in entries(iter.map) : timesVisited(e) = 1
           /\ \A j \in 1..Len(visited) : visited[j] \in entries(iter.map)

MoveOps == {"HashMap(HashMap&&)", "operator=(HashMap&&)"}
CopyOps == {"HashMap(HashMap&)", "operator=(HashMap&)"}

\* C8: move semantics.  A move construction or move assignment of t1 into
\* t2 comes back to its caller; after it t1 has size 0, no bucket array and
\* no lock array, and t2 has t1's former capacity and holds exactly the
\* pairs t1 held, none of the pairs t2 held before.
C8_MoveTransfers ==
    [][\A m \in Maps, other \in Maps :
        (last'.op \in MoveOps /\ last'.map = m /\ other /= m)
            => /\ last'.res = "ok"
               /\ size'[other] = 0
               /\ table'[other] = NullPtr
               /\ mutexes'[other] = NullPtr
               /\ size'[m] = size[other]
               /\ entries(m)' = entries(other)
               /\ \A k \in PairKeys :
                    size[other] >= 1
                        => lookupResults(m, k)' = lookupResults(other, k)]_vars

\* C9: a copy construction or copy assignment of t1 into t2 gives t2 the
\* capacity of t1 and exactly the pairs of t1, so that lookup(k) agrees on
\* both for every key k and t2 keeps none of the pairs it held before, in
\* arrays of its own, while the capacity and the chains of t1 stay as they
\* were.
C9_CopyEqual ==
    [][\A m \in Maps, other \in Maps :
        (last'.op \in CopyOps /\ last'.map = m /\ other /= m)
            => /\ last'.res = "ok"
               /\ size'[m] = size[other]
               /\ entries(m)' = entries(other)
               /\ \A k \in PairKeys :
                    size[other] >= 1
                        => /\ lookupResults(m, k)' = lookupResults(other, k)'
                           /\ existsResults(m, k)' = existsResults(other, k)'
               /\ size'[other] = size[other]
               /\ table'[other] = table[other]
               /\ \A i \in 0..(size[other] - 1) :
                    slotAt(heap, other, i)' = slotAt(heap, other, i)]_vars

\* a copy assignment has just copied a table one of whose buckets chains two
\* colliding keys
C9_Witness ==
    /\ last.op = "operator=(HashMap&)" /\ last.res = "ok"
    /\ Usable("umap") /\ Usable("umap2")
    /\ \E i \in 0..(size["umap2"] - 1) : Len(slotAt(heap, "umap2", i).chain) >= 2

\* C10: copy independence.  While a table and its copy both live, an insert
\* or a remove on either of them leaves lookup(k) and exists(k) of the other
\* unchanged for every key k.
C10_CopyIndependent ==
    [][\A m \in Maps, other \in Maps :
        (/\ last'.op \in {"insert", "remove"} /\ last'.map = m /\ other /= m
         /\ Usable("umap") /\ Usable("umap2"))
            => \A k \in PairKeys :
                /\ lookupResults(other, k)' = lookupResults(other, k)
                /\ existsResults(other, k)' = existsResults(other, k)]_vars

\* a remove has just succeeded on a table whose copy still holds the
\* removed key, after an insert had changed the copy
C10_Witness ==
    /\ last.op = "remove" /\ last.res = "ok"
    /\ Usable("umap") /\ Usable("umap2")
    /\ \E other \in Maps :
        /\ other /= last.map
        /\ stored[last.map][last.key] = NoValue
        /\ stored[other][last.key] /= NoValue
        /\ lookupResults(other, last.key) = {stored[other][last.key]}
    /\ \E k \in PairKeys : k /= last.key /\ stored["umap"][k] /= stored["umap2"][k]

\* the outcome of op on a key when the calls on that key are run alone, in
\* their order, and have left it with value v (NoValue: not in the table)
alone(op, v) ==
    IF op = "exists" THEN (IF v = NoValue THEN "false" ELSE "true")
    ELSE IF op = "lookup" THEN (IF v = NoValue THEN KeyNotFound ELSE v)
    ELSE IF op = "remove" THEN (IF v = NoValue THEN KeyNotFound ELSE "ok")
    ELSE "ok"

\* thread t is inside the body of a call, owning the mutex of its bucket
Inside(t) == thread[t].pc = "inside"

\* thread t leaves its call in this step
Exits(t) == thread[t].pc = "inside" /\ thread'[t].pc = "idle"

\* C11: concurrent-bucket independence.  With the threads on keys of
\* different buckets, a thread that reaches its lock_guard never finds the
\* mutex held by another thread, and every call ends with the outcome that
\* the calls on its key alone, in program order, give.
C11_DisjointBuckets ==
    [][\A t \in Threads :
        /\ thread[t].pc = "lock" => mutexAt(heap, "umap", lockIndex(t)) = "unlocked"
        /\ Exits(t) => outcome(thread[t].op, thread[t].seen, thread[t].key)
                         = alone(thread[t].op, stored["umap"][thread[t].key])]_vars

\* both threads are inside calls at once, in different buckets, on a table
\* that already holds a key
C11_Witness ==
    /\ Inside("t1") /\ Inside("t2")
    /\ bucketIn("t1") /= bucketIn("t2")
    /\ \E k \in PairKeys : stored["umap"][k] /= NoValue

\* C12: calls on the same bucket are serialized.  No two threads are inside
\* calls on the same bucket index at once, and every call ends with the
\* outcome it has in the sequential order in which the calls leave.
C12_SameBucketSerialized ==
    [][/\ \A t \in Threads, u \in Threads :
            (t /= u /\ Inside(t) /\ Inside(u)) => bucketIn(t) /= bucketIn(u)
       /\ \A t \in Threads :
            Exits(t) => /\ outcome(thread[t].op, thread[t].seen, thread[t].key)
                            = alone(thread[t].op, stored["umap"][thread[t].key])
                        /\ thread[t].seen = bucketOf("umap", thread[t].key)]_vars

\* a thread is inside an insert or a remove on a bucket that holds Elements
\* while the other thread waits at the lock_guard of the same bucket
C12_Witness ==
    \E t \in Threads, u \in Threads :
        /\ Inside(t) /\ thread[t].op \in {"insert", "remove"}
        /\ thread[u].pc = "lock" /\ bucketIn(u) = bucketIn(t)
        /\ thread[t].seen /= <<>>
        /\ mutexAt(heap, "umap", lockIndex(u)) = "locked"

\* C13: failure never leaks a lock.  When a lookup or a remove leaves with
\* KeyNotFound, the mutex of its bucket is unlocked in the state it leaves,
\* so that every thread waiting at the lock_guard of that bucket can take it.
C13_FailureReleasesLock ==
    [][\A t \in Threads :
        (/\ Exits(t) /\ thread[t].op \in {"lookup", "remove"}
         /\ outcome(thread[t].op, thread[t].seen, thread[t].key) = KeyNotFound)
            => /\ last'.res = KeyNotFound
               /\ mutexAt(heap', "umap", lockIndex(t)) = "unlocked"
               /\ \A u \in Threads :
                    (thread[u].pc = "lock" /\ lockIndex(u) = lockIndex(t))
                        => canLock(mutexAt(heap', "umap", lockIndex(u)))]_vars

\* after a lookup or remove failed with KeyNotFound, another call is inside
\* the same bucket
C13_Witness ==
    /\ last.op \in {"lookup", "remove"} /\ last.res = KeyNotFound
    /\ \E u \in Threads :
        /\ Inside(u) /\ bucketIn(u) = hash("umap", last.key)
        /\ thread[u].key /= last.key

slotsOf(h, a) == IF a = NullPtr THEN 0 ELSE Cardinality(DOMAIN h[a].elems)

\* C14: whenever no call is running, a table has exactly _size bucket slots
\* and exactly _size mutex slots, and every mutex slot 0.._size-1 points to a
\* std::mutex, after resize(n) has returned as well.
C14_LockPerBucket ==
    \A m \in Maps :
        (life[m] = "live" /\ ~crashed)
            => /\ slotsOf(heap, table[m]) = size[m]
               /\ slotsOf(heap, mutexes[m]) = size[m]
               /\ \A i \in 0..(size[m] - 1) :
                    mutexAt(heap, m, i) \in {"unlocked", "locked"}

\* C15: placement.  In every reachable state every bucket slot i of a table
\* is the head of a chain (not an indeterminate pointer) all of whose
\* Elements have hashFunctor(key) % _size = i.
C15_Placement ==
    \A m \in Maps :
        (life[m] = "live" /\ ~crashed)
            => \A i \in 0..(size[m] - 1) :
                /\ ~slotAt(heap, m, i).wild
                /\ \A p \in 1..Len(slotAt(heap, m, i).chain) :
                    hash(m, slotAt(heap, m, i).chain[p].key) = i

\* C16: key uniqueness.  In every reachable state every bucket slot of a
\* table is the head of a chain (not an indeterminate pointer) in which no
\* two Elements have equal keys.
C16_UniqueKeys ==
    \A m \in Maps :
        (life[m] = "live" /\ ~crashed)
            => \A i \in 0..(size[m] - 1) :
                /\ ~slotAt(heap, m, i).wild
                /\ \A p \in 1..Len(slotAt(heap, m, i).chain),
                      q \in 1..Len(slotAt(heap, m, i).chain) :
                    p /= q => slotAt(heap, m, i).chain[p].key
                                /= slotAt(heap, m, i).chain[q].key

SelfOps == {"operator=(HashMap&) on itself", "operator=(HashMap&&) on itself"}

\* C18: self-assignment is a no-op.  A copy assignment or a move assignment
\* of a table to itself comes back to its caller and leaves the capacity,
\* every chain, every mutex and both arrays as they were.
C18_SelfAssignNoOp ==
    [][last'.op \in SelfOps
        => /\ last'.res = "ok"
           /\ heap' = heap /\ size' = size /\ table' = table
           /\ mutexes' = mutexes /\ life' = life]_vars

\* C19: destroying a table of capacity 0 that was default-constructed or
\* moved from is a no-op: the table has no bucket array and no mutex array,
\* the destructor returns, and the heap (every chain, mutex and array, those
\* of the move destination included) and the other table's fields are as
\* they were.
C19_DestroyEmptyNoOp ==
    [][\A m \in Maps, other \in Maps :
        (/\ last'.op = "~HashMap" /\ last'.map = m /\ other /= m
         /\ life[m] = "live" /\ size[m] = 0)
            => /\ last'.res = "ok"
               /\ table[m] = NullPtr /\ mutexes[m] = NullPtr
               /\ heap' = heap
               /\ size'[other] = size[other] /\ table'[other] = table[other]
               /\ mutexes'[other] = mutexes[other]
               /\ \A k \in PairKeys :
                    Usable(other) => lookupResults(other, k)' = lookupResults(other, k)]_vars

\* the moved-from umap has just been destroyed while umap2, which took its
\* arrays, holds keys and still finds them
C19_Witness ==
    /\ last.op = "~HashMap" /\ last.map = "umap" /\ last.res = "ok"
    /\ Usable("umap2")
    /\ \E k \in PairKeys :
        /\ stored["umap2"][k] /= NoValue
        /\ lookupResults("umap2", k) = {stored["umap2"][k]}

\* C20: cursor invariant.  After begin() and after every ++, when _current
\* is not nullptr it is an Element of the chain of _table[_index], for the
\* Iterator's own _index.
C20_CursorInOwnBucket ==
    (iter.made /\ iter.current /= NullElem /\ last.op \in {"begin", "++"})
        => /\ iter.current.b = iter.index
           /\ iter.current.p <= Len(slotAt(heap, iter.map, iter.index).chain)

\* C21: iteration order.  Every ++ of a walk that does not reach end() moves
\* to the chain successor of the Element it was at, or to the head of a
\* bucket of higher index: the walk goes through the buckets in ascending
\* index and through each bucket in chain order, and the bucket index of the
\* visited Element never decreases.
C21_WalkInOrder ==
    [][(last'.op = "++" /\ iter.current /= NullElem /\ iter'.current /= NullElem)
        => \/ iter'.current.b > iter.current.b
           \/ /\ iter'.current.b = iter.current.b
              /\ iter'.current.p = iter.current.p + 1]_vars

\* C22: insert(k, v) with k absent appends Element(k, v) at the tail of k's
\* chain; with k present it changes the value of k's Element and nothing
\* else.  Either way the other Elements of the chain keep their keys, values
\* and order, and no other bucket changes.
C22_InsertFrame ==
    [][\A m \in Maps, k \in Keys :
        (/\ last'.op = "insert" /\ last'.map = m /\ last'.key = k
         /\ last'.res = "ok" /\ Usable(m))
            => /\ IF chainExists(bucketOf(m, k), k)
                  THEN /\ Len(bucketOf(m, k))' = Len(bucketOf(m, k))
                       /\ \A p \in 1..Len(bucketOf(m, k)) :
                            IF bucketOf(m, k)[p].key = k
                            THEN bucketOf(m, k)'[p] = Element(k, last'.val)
                            ELSE bucketOf(m, k)'[p] = bucketOf(m, k)[p]
                  ELSE bucketOf(m, k)' = Append(bucketOf(m, k), Element(k, last'.val))
               /\ \A i \in 0..(size[m] - 1) :
                    i /= hash(m, k) => slotAt(heap', m, i) = slotAt(heap, m, i)]_vars

\* an insert has just put its pair at the tail of a chain of three whose
\* other two Elements hold different values
C22_Witness ==
    /\ last.op = "insert" /\ last.res = "ok" /\ Usable(last.map)
    /\ Len(bucketOf(last.map, last.key)) = 3
    /\ bucketOf(last.map, last.key)[3] = Element(last.key, last.val)
    /\ bucketOf(last.map, last.key)[1].value /= bucketOf(last.map, last.key)[2].value

\* C23: a remove(k) that succeeds takes exactly the Element with key k out of
\* its chain, at the head, in the middle or at the tail: the chain afterwards
\* is the chain before without that one Element, in the same order, and no
\* other bucket changes.
C23_RemoveFrame ==
    [][\A m \in Maps, k \in Keys :
        (/\ last'.op = "remove" /\ last'.map = m /\ last'.key = k
         /\ last'.res = "ok" /\ Usable(m))
            => /\ \E p \in 1..Len(bucketOf(m, k)) :
                    /\ bucketOf(m, k)[p].key = k
                    /\ bucketOf(m, k)' = SubSeq(bucketOf(m, k), 1, p - 1)
                                    \o SubSeq(bucketOf(m, k), p + 1, Len(bucketOf(m, k)))
               /\ \A i \in 0..(size[m] - 1) :
                    i /= hash(m, k) => slotAt(heap', m, i) = slotAt(heap, m, i)]_vars

\* a remove has just taken one of two colliding Elements out of the chain of
\* bucket 1 of a table of two buckets: the one left is still found, and
\* bucket 0 still holds its key
C23_Witness ==
    /\ last.op = "remove" /\ last.res = "ok"
    /\ size[last.map] = 2 /\ life[last.map] = "live"
    /\ hash(last.map, last.key) = 1
    /\ Len(slotAt(heap, last.map, 0).chain) = 1
    /\ Len(bucketOf(last.map, last.key)) = 1
    /\ lookupResults(last.map, bucketOf(last.map, last.key)[1].key)
            = {bucketOf(last.map, last.key)[1].value}

\* m is a table as construction and the keyed calls leave it: every bucket
\* slot is a chain and every mutex slot points to an unlocked std::mutex
Sound(m) ==
    /\ Usable(m) /\ ~crashed
    /\ \A i \in 0..(size[m] - 1) :
        ~slotAt(heap, m, i).wild /\ mutexAt(heap, m, i) = "unlocked"

\* the Elements in the chains of a bucket array
pairsOf(elems) ==
    UNION { { elems[i].chain[p] : p \in 1..Len(elems[i].chain) } : i \in DOMAIN elems }

\* C28: resize(newCapacity) with 1 <= newCapacity < capacity on a table that
\* holds keys comes back, and the new buckets hold exactly the (key, value)
\* pairs the table held, whichever way the call can go.
C28_ShrinkKeepsPairs ==
    \A n \in Sizes :
        (Sound("umap") /\ 1 <= n /\ n < size["umap"])
            => \A fresh \in freshTables(n) :
               \A r \in resizeResults("umap", n, fresh) :
                    ~r.crash /\ pairsOf(r.elems) = entries("umap")

\* The bucket indexes i for which the loop of destroyTableAndMutexes reaches
\* delete _mutexes[i] (line 406): on an empty bucket the continue of line 395
\* goes on to ++i and skips it.
destroyDeleted(h, m) ==
    { i \in 0..(size[m] - 1) : slotAt(h, m, i).chain /= <<>> }

\* The bucket indexes i for which the loop of resize reaches
\* delete _mutexes[i] (line 668): the continue of line 633 skips it.
resizeDeleted(h, m) ==
    { i \in 0..(size[m] - 1) : slotAt(h, m, i).chain /= <<>> }

\* C29: the destructor of a sized table deletes the std::mutex of every
\* bucket index 0.._size-1, whether the bucket holds Elements or not, so that
\* no mutex of the table stays allocated.
C29_DestroyFreesEveryLock ==
    [][\A m \in Maps :
        (last'.op = "~HashMap" /\ last'.map = m /\ last'.res = "ok" /\ Sound(m))
            => destroyDeleted(heap, m) = 0..(size[m] - 1)]_vars

\* C30: resize deletes the std::mutex of every old bucket index 0.._size-1,
\* whether the bucket holds Elements or not, so that no mutex of the old
\* array stays allocated when resize has returned.
C30_ResizeFreesEveryLock ==
    [][\A m \in Maps :
        (last'.op = "resize" /\ last'.map = m /\ last'.res = "ok" /\ Sound(m))
            => resizeDeleted(heap, m) = 0..(size[m] - 1)]_vars

\* C24: at every point of every execution a thread owns at most one mutex,
\* counting the mutexes of every table it works on, also while a copy inserts
\* an Element of other into this.
C24_OneLockPerThread ==
    \A t \in Threads : Cardinality(locksHeld(t)) <= 1

\* C25: copies cannot deadlock.  Threads that run copy assignments between
\* umap and umap2 in both directions, with keyed calls on the two tables,
\* never all wait at a lock_guard for a mutex another thread owns.
C25_CopyNoDeadlock ==
    ~(\A t \in Threads : Blocked(t))

\* thread t is copying and has just finished bucket i of other
CopyDone(t, i) ==
    /\ thread[t].pc = "copyInsert" /\ thread'[t].pc = "copyLock"
    /\ thread[t].key = i

\* C26: per-bucket consistency of a copy under concurrent writers.  At the
\* instant the copy leaves bucket i of other, bucket i of the copy holds
\* exactly the chain of other's bucket i at that instant; and from then on
\* until the copy ends no step changes bucket i of the copy.
C26_CopyBucketSnapshot ==
    [][\A t \in Threads, i \in 0..(MaxSize - 1) :
        /\ CopyDone(t, i)
            => slotAt(heap, copyDst(t), i).chain = slotAt(heap, copySrc(t), i).chain
        /\ (thread[t].op = "copy" /\ i < thread[t].key /\ i < size[copyDst(t)])
            => slotAt(heap', copyDst(t), i) = slotAt(heap, copyDst(t), i)]_vars

\* the copy is past bucket 0 of umap, whose chain of two keys it holds,
\* while a writer has since changed that chain in umap
C26_Witness ==
    \E t \in Threads :
        /\ thread[t].op = "copy" /\ thread[t].key >= 1
        /\ Len(slotAt(heap, copyDst(t), 0).chain) = 2
        /\ slotAt(heap, copySrc(t), 0).chain /= slotAt(heap, copyDst(t), 0).chain

\* C27: a lookup that runs while resize drains the bucket of its key is
\* safe: the std::mutex it waits for at its lock_guard, and owns inside its
\* body, is an allocated mutex (never one that resize has deleted), and the
\* bucket it reads under the lock is a chain of allocated Elements.
C27_LookupSafeUnderResize ==
    \A t \in Threads :
        (thread[t].op = "lookup" /\ ~crashed)
            => /\ thread[t].pc = "lock"
                    => mutexAt(heap, "umap", lockIndex(t)) \in {"unlocked", "locked"}
               /\ thread[t].pc = "inside"
                    => /\ mutexAt(heap, "umap", lockIndex(t)) = "locked"
                       /\ ~slotAt(heap, "umap", bucketIn(t)).wild

\* every mutex of every live table is in heap' what it is in heap
MutexesSame == \A m \in Maps : mutexes[m] /= NullPtr => heap'[mutexes[m]] = heap[mutexes[m]]

\* a step of begin() or ++ on the Iterator
IterStep == iter'.made /\ (iter' /= iter \/ visited' /= visited)

\* a step of print() in some thread
PrintStep == \E t \in Threads : thread'[t] /= thread[t]
                                /\ "print" \in {thread[t].op, thread'[t].op}

\* C31 as stated: neither the Iterator (begin, ++, *, !=) nor print() acquires
\* a bucket lock at any point: every step of either leaves every mutex as it
\* was.
C31_IterAndPrintLockFree == [][(IterStep \/ PrintStep) => MutexesSame]_vars

\* C31 as amended: the Iterator acquires no bucket lock, so begin() and ++
\* leave every mutex as it was whoever owns it; print() does acquire them:
\* while it writes bucket i it owns the mutex of bucket i and no other, no
\* keyed call is inside bucket i, and it releases the mutex before it goes
\* on to bucket i + 1.
C31_IterLockFreePrintLocks ==
    [][/\ IterStep => MutexesSame
       /\ \A t \in Threads : thread[t].pc = "prInside" =>
             /\ mutexAt(heap, "umap", thread[t].key) = "locked"
             /\ locksHeld(t) = {<<"umap", thread[t].key>>}
             /\ \A u \in Threads \ {t} :
                   ~(thread[u].pc = "inside" /\ lockIndex(u) = thread[t].key)
             /\ thread'[t].pc /= "prInside" =>
                   mutexAt(heap', "umap", thread[t].key) = "unlocked"]_vars

\* print() owns the mutex of bucket 1 of a table of two buckets and has
\* written the Element of bucket 0, a keyed call owns the mutex of bucket 0,
\* and the walk started by begin() stands on the Element of bucket 0.
C31_Witness ==
    /\ size["umap"] = 2
    /\ \E t \in Threads : /\ thread[t].pc = "prInside" /\ thread[t].key = 1
                          /\ Len(thread[t].seen) = 1
                          /\ mutexAt(heap, "umap", 1) = "locked"
    /\ \E u \in Threads : thread[u].pc = "inside" /\ lockIndex(u) = 0
    /\ Walking /\ iter.current = ElemAt(0, 1) /\ Len(visited) = 1

\* C32: on a table with no entries (constructed with any capacity, default
\* constructed with capacity 0, or with every key removed again) begin()
\* equals end(), and ++ on an Iterator that equals end() leaves it equal to
\* end(): so does every Iterator that begin() and ++ have made on it.
C32_EmptyBeginIsEnd ==
    \A m \in Maps : (life[m] = "live" /\ stored[m] = EmptyStore /\ ~crashed) =>
        /\ ~notEqual(begin(m), end(m))
        /\ ~notEqual(next(begin(m)), end(m))
        /\ ~notEqual(next(end(m)), end(m))
        /\ (iter.made /\ iter.map = m) =>
              ~notEqual(iter, end(m)) /\ ~notEqual(next(iter), end(m))

\* ++ has been applied to the Iterator that begin() made on a table of two
\* buckets that holds no key, and the Iterator equals end().
C32_Witness ==
    /\ life["umap"] = "live" /\ size["umap"] = 2 /\ stored["umap"] = EmptyStore
    /\ iter.made /\ last.op = "++" /\ visited = <<>>
    /\ ~notEqual(iter, end("umap"))

\* C33: no mutex is deleted while a thread owns it and no thread unlocks a
\* mutex that was deleted: whatever mutex a thread owns before a step is
\* still a mutex after it, in destruction, assignment and resize, also when
\* one thread runs them alone.
C33_NoFreeWhileHeld ==
    [][\A t \in Threads : \A l \in locksHeld(t) :
          mutexAt(heap', l[1], l[2]) \in {"locked", "unlocked"}]_vars

\* C34: when resize(n) returns on a sound table, every slot of the new bucket
\* array is the head of a chain, the empty one where no Element was re-hashed
\* to it (no slot is an indeterminate pointer that the rebuild read or left
\* behind), and the Elements of the table are exactly those it held.
C34_ResizeInitialisesBuckets ==
    [][(/\ Sound("umap")
        /\ last'.op = "resize" /\ last'.res = "ok" /\ table' /= table)
          => /\ \A i \in 0..(size'["umap"] - 1) : ~(slotAt(heap, "umap", i).wild)'
             /\ size'["umap"] >= 1 => entries("umap")' = entries("umap")]_vars

\* what lookup(k) on umap finds in the table as it is
found(k) == lookupBody(bucketOf("umap", k), k)

\* C35: no lost update within one bucket.  With the two threads in calls on
\* any keys, when a call leaves, its own key is in the table as the call
\* left it (an insert's value under the key, no Element after a remove) and
\* every other key is found exactly as before, whatever the other thread has
\* read or is waiting for; so once every call has returned each key holds
\* the value of the last insert that returned for it, or is absent after a
\* remove.
C35_NoLostUpdate ==
    [][/\ \A t \in Threads : Exits(t) =>
            \A c \in {thread[t]} :
                /\ c.op = "insert" => found(c.key)' = c.val
                /\ (c.op = "remove" /\ outcome("remove", c.seen, c.key) = "ok")
                        => found(c.key)' = KeyNotFound
                /\ \A k \in PairKeys \ {c.key} : found(k)' = found(k)
       /\ (\A t \in Threads : thread'[t].pc = "idle") =>
            \A k \in PairKeys :
                (Usable("umap") => found(k) = alone("lookup", stored["umap"][k]))'
      ]_vars

\* One thread is inside insert(k1) on a bucket that already holds a different
\* key k2, and the other thread waits at the lock_guard of the same bucket
\* with an insert or a remove of k2.
C35_Witness ==
    \E t \in Threads, u \in Threads :
        /\ Inside(t) /\ thread[t].op = "insert"
        /\ thread[u].pc = "lock" /\ thread[u].op \in {"insert", "remove"}
        /\ thread[u].key /= thread[t].key
        /\ bucketIn(u) = bucketIn(t)
        /\ chainExists(thread[t].seen, thread[u].key)
        /\ ~chainExists(thread[t].seen, thread[t].key)

====
